---- MODULE Spec2Model ----
(***************************************************************************)
(* A model of the LiveTemplate client: the tree reconciliation engine      *)
(* (state/tree-renderer.ts, class TreeRenderer), the network transport     *)
(* (transport/websocket.ts, class WebSocketTransport) and the upload       *)
(* handler (upload/upload-handler.ts, class UploadHandler).                *)
(*                                                                         *)
(* JSON values are tagged records.  An object is a function from its keys  *)
(* to values; Object.entries order is the order of KeyOrder (integer-like  *)
(* keys first, ascending, as in JavaScript).  Strings are atoms; html is   *)
(* the sequence of the non-empty atoms that the code concatenates.         *)
(* A JavaScript TypeError is the flag ok = FALSE threaded through the      *)
(* operators, together with the engine state reached when it was thrown.   *)
(***************************************************************************)
EXTENDS Integers, Sequences, FiniteSets, TLC

\* treeState, rangeState, rangeIdKeys: the fields of TreeRenderer.
\* lastUpdate, result: the argument and the outcome of the latest applyUpdate.
\* snapshot: the value the latest getTreeState() returned, as its holder sees it.
\* calls: the number of applyUpdate calls so far.  session: the kind of
\* updates the server of this behaviour sends.
\* before: the engine fields, argument and outcome as they were when the
\* latest applyUpdate was called.
\* other: a second TreeRenderer instance of the same program: its fields, the
\* outcome of its latest applyUpdate and the number of its applyUpdate calls.
\* paired: the two instances were new at the same moment (the first by
\* reset(), the second by construction) and got the same updates since.
\* actor: the instance the latest call was made on.
\* transport: the fields of a WebSocketTransport, the readyState of the
\* WebSocket it created last, and the callbacks it has invoked.
\* options: the WebSocketTransportOptions it was constructed with.
\* wsLog: what has happened to the transport so far.
\* sent: the update objects handed to applyUpdate so far, which the caller
\* still holds: each as it was sent and as its holder sees it now.
\* pendingFiles, entries: the maps of an UploadHandler (entries holds the ids).
\* objects: the UploadEntry objects it created, by entry id.
\* tasks: the uploadChunked and uploadExternal calls in progress or ended.
\* outbox: the messages it handed to sendMessage, in order.
\* timers: the cleanup timers pending, per upload name.
\* received: the entry infos of the upload_start responses it has handled.
\* triggered: the entries for whose upload name triggerPendingUploads was
\* called since they were created.
VARIABLES treeState, rangeState, rangeIdKeys, lastUpdate, result, snapshot, calls, session, before,
          other, paired, actor, transport, options, wsLog, discarded, sent,
          pendingFiles, entries, objects, tasks, outbox, timers, received, triggered

vars == <<treeState, rangeState, rangeIdKeys, lastUpdate, result, snapshot, calls, session, before,
          other, paired, actor, transport, options, wsLog, discarded, sent,
          pendingFiles, entries, objects, tasks, outbox, timers, received, triggered>>

engineVars == <<treeState, rangeState, rangeIdKeys, lastUpdate, result, snapshot, calls, session, before,
                other, paired, actor, sent>>

transportVars == <<transport, options, wsLog, discarded>>

uploadVars == <<pendingFiles, entries, objects, tasks, outbox, timers, received, triggered>>

(***************************************************************************)
(* JSON values                                                             *)
(***************************************************************************)
Undefined == [t |-> "undefined"]

Null == [t |-> "null"]

Str(s) == [t |-> "string", v |-> s]

Arr(l) == [t |-> "array", l |-> l]

Obj(f) == [t |-> "object", f |-> f]

EmptyMap == [k \in {} |-> Undefined]

IsString(v) == v.t = "string"

IsArray(v) == v.t = "array"

\* typeof v === "object" && v !== null && !Array.isArray(v)
IsPlainObject(v) == v.t = "object"

\* typeof v === "object" (null and arrays included)
TypeofObject(v) == v.t \in {"object", "array", "null"}

\* JavaScript truthiness
Truthy(v) == CASE v.t = "undefined" -> FALSE
               [] v.t = "null" -> FALSE
               [] v.t = "string" -> v.v # ""
               [] OTHER -> TRUE

\* i.toString() for the slot indices of the model
IndexKeys == <<"0", "1", "2", "3", "4", "5", "6", "7", "8", "9">>

IntToString(i) == IF i + 1 \in DOMAIN IndexKeys THEN IndexKeys[i + 1] ELSE "big"

\* /^\d+$/.test(k)
IsNumericKey(k) == \E i \in DOMAIN IndexKeys : IndexKeys[i] = k

\* parseInt(k) of a numeric key
ParseInt(k) == (CHOOSE i \in DOMAIN IndexKeys : IndexKeys[i] = k) - 1

\* Object.entries / Object.keys order: integer-like keys ascending, then the
\* other keys in insertion order (one fixed insertion order is modelled)
KeyOrder == <<"0", "1", "2", "3", "4", "5", "6", "7", "8", "9", "d", "s", "sm", "m", "else", "idKey", "_sk", "_k", "x", "A", "B">>

InKeys(f, k) == k \in DOMAIN f

ObjectKeys(f) == SelectSeq(KeyOrder, LAMBDA k : InKeys(f, k))

Put(f, k, v) == [x \in (DOMAIN f) \cup {k} |-> IF x = k THEN v ELSE f[x]]

\* {...a, ...b}
SpreadInto(a, b) == [x \in (DOMAIN a) \cup (DOMAIN b) |-> IF x \in DOMAIN b THEN b[x] ELSE a[x]]

\* v must not be null or undefined: a property read on them is a TypeError
CanRead(v) == v.t \notin {"null", "undefined"}

\* v[k] for a value that is not null or undefined
Get(v, k) == CASE v.t = "object" -> IF k \in DOMAIN v.f THEN v.f[k] ELSE Undefined
               [] v.t = "array" -> IF IsNumericKey(k) /\ ParseInt(k) + 1 \in DOMAIN v.l THEN v.l[ParseInt(k) + 1] ELSE Undefined
               [] OTHER -> Undefined

\* the own enumerable properties copied by an object spread {...v}
SpreadOf(v) == CASE v.t = "object" -> v.f
                 [] v.t = "array" -> [k \in {IntToString(i - 1) : i \in DOMAIN v.l} |-> v.l[ParseInt(k) + 1]]
                 [] OTHER -> EmptyMap

\* a === b: strings by value; objects and arrays are equal only to themselves,
\* and an item's field is never the same object as an operation's argument
StrictEquals(a, b) == CASE a.t = "string" /\ b.t = "string" -> a.v = b.v
                        [] a.t = "null" /\ b.t = "null" -> TRUE
                        [] a.t = "undefined" /\ b.t = "undefined" -> TRUE
                        [] OTHER -> FALSE

RECURSIVE Stringify(_)
\* JSON.stringify as a canonical form: a field whose value is undefined is
\* omitted, an undefined array element is written as null
Stringify(v) ==
  CASE v.t = "object" ->
         LET ks == {k \in DOMAIN v.f : v.f[k].t # "undefined"}
         IN Obj([k \in ks |-> Stringify(v.f[k])])
    [] v.t = "array" ->
         Arr([i \in DOMAIN v.l |-> IF v.l[i].t = "undefined" THEN Null ELSE Stringify(v.l[i])])
    [] OTHER -> v

(***************************************************************************)
(* deepClone, src/unnamed/part_000 lines 14-19: a reference to a new        *)
(* object that shares nothing with obj.  shared tells whether a write to   *)
(* the referenced object is a write to obj itself.                         *)
(***************************************************************************)
\* no clone: a reference to obj itself
deepCloneAliased(obj) == [val |-> obj, shared |-> TRUE]

deepClone(obj) == [val |-> obj, shared |-> FALSE]

isRangeNode(node) == /\ node.t \notin {"null", "undefined"}
                     /\ TypeofObject(node)
                     /\ IsArray(Get(node, "d"))
                     /\ IsArray(Get(node, "s"))

\* the inline check of applyUpdate and deepMergeTreeNodes
existingIsRange(existing) == /\ Truthy(existing)
                             /\ TypeofObject(existing)
                             /\ ~IsArray(existing)
                             /\ IsArray(Get(existing, "d"))
                             /\ IsArray(Get(existing, "s"))

isDifferentialOps(value) == /\ IsArray(value)
                            /\ Len(value.l) > 0
                            /\ IsArray(value.l[1])
                            /\ Len(value.l[1].l) > 0
                            /\ IsString(value.l[1].l[1])

(***************************************************************************)
(* Key lookup, lines 790-812                                               *)
(***************************************************************************)
HasEntry(m, path) == path \in DOMAIN m

\* the property name an idKey value is used as
PropertyName(k) == IF IsString(k) THEN k.v ELSE "[object Object]"

\* !statePath || !this.rangeIdKeys[statePath]
NoIdKey(ik, statePath) == statePath = "" \/ ~HasEntry(ik, statePath) \/ ~Truthy(ik[statePath])

\* item[keyPosStr] || null
KeyField(v) == [ok |-> TRUE, v |-> IF Truthy(v) THEN v ELSE Null]

\* getItemKey: ok = FALSE is the TypeError of reading a field of null/undefined
getItemKey(item, statePath, ik) ==
  IF NoIdKey(ik, statePath) THEN [ok |-> TRUE, v |-> Null]
  ELSE IF ~CanRead(item) THEN [ok |-> FALSE, v |-> Null]
  ELSE KeyField(Get(item, PropertyName(ik[statePath])))

\* findIndex stops at the first item whose key is the wanted one, or whose
\* key cannot be read
StopsAt(k, key) == ~k.ok \/ StrictEquals(k.v, key)

FirstOf(S) == CHOOSE i \in S : \A j \in S : i <= j

FoundAt(stops, items, statePath, ik) ==
  IF stops = {} THEN [ok |-> TRUE, idx |-> -1]
  ELSE IF getItemKey(items[FirstOf(stops)], statePath, ik).ok THEN [ok |-> TRUE, idx |-> FirstOf(stops) - 1]
  ELSE [ok |-> FALSE, idx |-> -1]

\* items.findIndex(item => getItemKey(item) === key); idx is 0-based, -1 if none
findItemIndexByKey(items, key, statePath, ik) ==
  FoundAt({i \in DOMAIN items : StopsAt(getItemKey(items[i], statePath, ik), key)}, items, statePath, ik)

\* Array.isArray(x) ? x : [x]
AsItems(x) == IF IsArray(x) THEN x.l ELSE <<x>>

\* operation[i] (0-based) of an operation tuple
OpArg(operation, i) == IF i + 1 \in DOMAIN operation.l THEN operation.l[i + 1] ELSE Undefined

\* items.splice(idx, 1) for a 0-based idx
RemoveAt(items, idx) == SubSeq(items, 1, idx) \o SubSeq(items, idx + 2, Len(items))

\* items.splice(idx + 1, 0, ...more) for a 0-based idx
InsertAfter(items, idx, more) == SubSeq(items, 1, idx + 1) \o more \o SubSeq(items, idx + 2, Len(items))

ReplaceAt(items, idx, item) == [i \in DOMAIN items |-> IF i = idx + 1 THEN item ELSE items[i]]

HasKey(k, orderedKey) == Truthy(k.v) /\ StrictEquals(k.v, orderedKey)

LastOf(S) == CHOOSE i \in S : \A j \in S : j <= i

\* itemsByKey.get(orderedKey): the Map of the "o" case holds, for a key, the
\* last item that carries it
ItemByKey(S, items) == IF S = {} THEN Undefined ELSE items[LastOf(S)]

Reordered(item) == IF Truthy(item) THEN <<item>> ELSE <<>>

RECURSIVE ReorderLoop(_, _, _, _, _)
\* for (const orderedKey of newOrder) of the "o" case
ReorderLoop(items, newOrder, n, statePath, ik) ==
  IF n > Len(newOrder) THEN <<>>
  ELSE Reordered(ItemByKey({i \in DOMAIN items : HasKey(getItemKey(items[i], statePath, ik), newOrder[n])}, items))
       \o ReorderLoop(items, newOrder, n + 1, statePath, ik)

\* a reorder that keeps the items whose key is not in newOrder, at the end
reorderItemsKeepingRest(items, newOrder, statePath, ik) ==
  IF \E i \in DOMAIN items : ~getItemKey(items[i], statePath, ik).ok THEN [ok |-> FALSE, items |-> items]
  ELSE IF ~IsArray(newOrder) THEN [ok |-> FALSE, items |-> items]
  ELSE [ok |-> TRUE, items |-> ReorderLoop(items, newOrder.l, 1, statePath, ik)
                               \o SelectSeq(items, LAMBDA item : \A n \in DOMAIN newOrder.l : ~HasKey(getItemKey(item, statePath, ik), newOrder.l[n]))]

\* the "o" case, lines 326-348 and 644-666: a TypeError when an item's key
\* cannot be read or newOrder cannot be iterated (a string is iterated by
\* character: only arrays are among the inputs of the model)
reorderItems(items, newOrder, statePath, ik) ==
  IF \E i \in DOMAIN items : ~getItemKey(items[i], statePath, ik).ok THEN [ok |-> FALSE, items |-> items]
  ELSE IF ~(IsArray(newOrder) \/ IsString(newOrder)) THEN [ok |-> FALSE, items |-> items]
  ELSE [ok |-> TRUE, items |-> ReorderLoop(items, IF IsArray(newOrder) THEN newOrder.l ELSE <<>>, 1, statePath, ik)]

(***************************************************************************)
(* applyDifferentialOpsToRange, lines 199-360.  One operation of the loop  *)
(* acts on r = [d, s, ik, ok]: the items array, the statics field of the   *)
(* range structure and the key registry.  f is what findItemIndexByKey     *)
(* returned to the case.                                                   *)
(***************************************************************************)
\* if (operation[2]) rangeStructure.s = operation[2]
WithStatics(r, statics) == IF Truthy(statics) THEN [r EXCEPT !.s = statics] ELSE r

\* if (operation[3] && typeof operation[3] === "object" && operation[3].idKey)
WithMetaIdKey(r, meta, statePath) ==
  IF Truthy(meta) /\ TypeofObject(meta) /\ Truthy(Get(meta, "idKey"))
  THEN [r EXCEPT !.ik = Put(r.ik, statePath, Get(meta, "idKey"))]
  ELSE r

\* an append that puts the items in front
opAppendInFront(r, operation, statePath) ==
  WithMetaIdKey([WithStatics(r, OpArg(operation, 2)) EXCEPT !.d = AsItems(OpArg(operation, 1)) \o r.d], OpArg(operation, 3), statePath)

opAppend(r, operation, statePath) ==
  WithMetaIdKey([WithStatics(r, OpArg(operation, 2)) EXCEPT !.d = r.d \o AsItems(OpArg(operation, 1))], OpArg(operation, 3), statePath)

opPrepend(r, operation, statePath) ==
  [WithStatics(r, OpArg(operation, 2)) EXCEPT !.d = AsItems(OpArg(operation, 1)) \o r.d]

\* a removal that takes the first item out whether or not the key was found
opRemoveFirst(r, f) ==
  IF ~f.ok THEN [r EXCEPT !.ok = FALSE]
  ELSE IF Len(r.d) > 0 THEN [r EXCEPT !.d = RemoveAt(r.d, 0)] ELSE r

opRemove(r, f) ==
  IF ~f.ok THEN [r EXCEPT !.ok = FALSE]
  ELSE IF f.idx >= 0 THEN [r EXCEPT !.d = RemoveAt(r.d, f.idx)] ELSE r

\* a "u" that puts the changes in the place of the item
opUpdateReplacing(r, f, changes) ==
  IF ~f.ok THEN [r EXCEPT !.ok = FALSE]
  ELSE IF f.idx >= 0 /\ Truthy(changes) THEN [r EXCEPT !.d = ReplaceAt(r.d, f.idx, changes)] ELSE r

opUpdate(r, f, changes) ==
  IF ~f.ok THEN [r EXCEPT !.ok = FALSE]
  ELSE IF f.idx >= 0 /\ Truthy(changes)
       THEN [r EXCEPT !.d = ReplaceAt(r.d, f.idx, Obj(SpreadInto(SpreadOf(r.d[f.idx + 1]), SpreadOf(changes))))]
       ELSE r

\* an "i" that splices at the anchor's own index
opInsertBefore(r, f, items) ==
  IF ~f.ok THEN [r EXCEPT !.ok = FALSE]
  ELSE IF f.idx >= 0 THEN [r EXCEPT !.d = InsertAfter(r.d, f.idx - 1, AsItems(items))] ELSE r

opInsert(r, f, items) ==
  IF ~f.ok THEN [r EXCEPT !.ok = FALSE]
  ELSE IF f.idx >= 0 THEN [r EXCEPT !.d = InsertAfter(r.d, f.idx, AsItems(items))] ELSE r

opReorder(r, o) == IF ~o.ok THEN [r EXCEPT !.ok = FALSE] ELSE [r EXCEPT !.d = o.items]

\* findItemIndexByKey(currentItems, operation[1], rangeStructure.s, statePath)
Find(r, operation, statePath) == findItemIndexByKey(r.d, OpArg(operation, 1), statePath, r.ik)

OpType(operation, code) == StrictEquals(OpArg(operation, 0), Str(code))

\* a loop body that takes an unknown opcode for a removal
applyOperationUnknownRemoves(r, operation, statePath) ==
  IF ~IsArray(operation) \/ Len(operation.l) < 2 THEN r
  ELSE CASE OpType(operation, "u") -> opUpdate(r, Find(r, operation, statePath), OpArg(operation, 2))
         [] OpType(operation, "a") -> opAppend(r, operation, statePath)
         [] OpType(operation, "p") -> opPrepend(r, operation, statePath)
         [] OpType(operation, "i") -> opInsert(r, Find(r, operation, statePath), OpArg(operation, 2))
         [] OpType(operation, "o") -> opReorder(r, reorderItems(r.d, OpArg(operation, 1), statePath, r.ik))
         [] OTHER -> opRemove(r, Find(r, operation, statePath))

\* the body of the loop, lines 241-352
applyOperation(r, operation, statePath) ==
  IF ~IsArray(operation) \/ Len(operation.l) < 2 THEN r
  ELSE CASE OpType(operation, "r") -> opRemove(r, Find(r, operation, statePath))
         [] OpType(operation, "u") -> opUpdate(r, Find(r, operation, statePath), OpArg(operation, 2))
         [] OpType(operation, "a") -> opAppend(r, operation, statePath)
         [] OpType(operation, "p") -> opPrepend(r, operation, statePath)
         [] OpType(operation, "i") -> opInsert(r, Find(r, operation, statePath), OpArg(operation, 2))
         [] OpType(operation, "o") -> opReorder(r, reorderItems(r.d, OpArg(operation, 1), statePath, r.ik))
         [] OTHER -> r

RECURSIVE operationsLoop(_, _, _, _)
\* for (const operation of operations), stopping at a TypeError
operationsLoop(r, operations, n, statePath) ==
  IF n > Len(operations) \/ ~r.ok THEN r
  ELSE operationsLoop(applyOperation(r, operations[n], statePath), operations, n + 1, statePath)

\* a registry that follows the range structure at hand: its entry for the
\* path is dropped when the structure names no idKey
RegisterIdKeyOrForget(ik, statePath, m) ==
  IF Truthy(m) /\ TypeofObject(m) /\ IsString(Get(m, "idKey")) THEN Put(ik, statePath, Get(m, "idKey"))
  ELSE [p \in (DOMAIN ik) \ {statePath} |-> ik[p]]

\* lines 229-235 and 423-429: learn the idKey of a range structure
RegisterIdKey(ik, statePath, m) ==
  IF Truthy(m) /\ TypeofObject(m) /\ IsString(Get(m, "idKey")) THEN Put(ik, statePath, Get(m, "idKey")) ELSE ik

RangeEntry(items, statics, staticsMap) == [items |-> items, statics |-> statics, staticsMap |-> staticsMap]

\* lines 354-359, or what a TypeError leaves behind: the entry that line 222
\* created holds the items array itself and so its changes made in place
RangeStateAfterOps(rs, statePath, rangeStructure, r) ==
  IF r.ok THEN Put(rs, statePath, RangeEntry(Arr(r.d), r.s, Get(rangeStructure, "sm")))
  ELSE IF ~HasEntry(rs, statePath) THEN Put(rs, statePath, RangeEntry(Arr(r.d), Get(rangeStructure, "s"), Get(rangeStructure, "sm")))
  ELSE rs

\* the range structure after the loop changed its d in place and assigned its s
Mutated(rangeStructure, r) == Obj(Put(Put(rangeStructure.f, "d", Arr(r.d)), "s", r.s))

\* a write to an object that was not cloned is a write to the stored object
WritesOf(ref, statePath, r, writes) ==
  IF ref.shared THEN writes \cup {<<statePath, ref.val, Mutated(ref.val, r)>>} ELSE writes

OpsApplied(ref, statePath, e, r) ==
  [v |-> Mutated(ref.val, r),
   e |-> [e EXCEPT !.rangeState = RangeStateAfterOps(e.rangeState, statePath, ref.val, r),
                   !.rangeIdKeys = r.ik,
                   !.writes = WritesOf(ref, statePath, r, e.writes)],
   ok |-> r.ok]

\* e is the engine state [treeState, rangeState, rangeIdKeys, writes]; ref is
\* the reference handed in by the caller.  The result carries the mutated
\* range structure v, the engine state and ok.
applyDifferentialOpsToRange(ref, operations, statePath, e) ==
  IF ~(Truthy(ref.val) /\ TypeofObject(ref.val) /\ IsArray(Get(ref.val, "d")) /\ IsArray(Get(ref.val, "s")))
  THEN [v |-> ref.val, e |-> e, ok |-> TRUE]
  ELSE OpsApplied(ref, statePath, e,
         operationsLoop([d |-> Get(ref.val, "d").l, s |-> Get(ref.val, "s"),
                         ik |-> RegisterIdKey(e.rangeIdKeys, statePath, Get(ref.val, "m")), ok |-> TRUE],
                        operations.l, 1, statePath))

(***************************************************************************)
(* deepMergeTreeNodes, lines 114-192                                       *)
(***************************************************************************)
\* currentPath ? `${currentPath}.${key}` : key
JoinPath(currentPath, key) == IF currentPath = "" THEN key ELSE currentPath \o "." \o key

Value(v, e) == [v |-> v, e |-> e, ok |-> TRUE]

RECURSIVE deepMergeTreeNodes(_, _, _, _)
RECURSIVE mergeEntries(_, _, _, _, _, _)
\* the three branches of the loop body, lines 167-188
mergeField(old, value, fieldPath, e) ==
  IF isDifferentialOps(value) /\ existingIsRange(old)
  THEN applyDifferentialOpsToRange(deepClone(old), value, fieldPath, e)
  ELSE IF IsPlainObject(value) /\ IsPlainObject(old)
  THEN deepMergeTreeNodes(old, value, fieldPath, e)
  ELSE Value(value, e)

\* merged[key] = m.v and on to the next key; a TypeError drops merged
mergeNext(merged, update, keys, n, currentPath, m) ==
  IF ~m.ok THEN [v |-> Obj(merged), e |-> m.e, ok |-> FALSE]
  ELSE mergeEntries(Put(merged, keys[n], m.v), update, keys, n + 1, currentPath, m.e)

\* the loop over Object.entries(update), from the n-th key on; merged is the
\* object under construction
mergeEntries(merged, update, keys, n, currentPath, e) ==
  IF n > Len(keys) THEN Value(Obj(merged), e)
  ELSE mergeNext(merged, update, keys, n, currentPath,
                 mergeField(Get(Obj(merged), keys[n]), update[keys[n]], JoinPath(currentPath, keys[n]), e))

\* no merge: the incoming value replaces the stored one
deepMergeReplacing(existing, update, currentPath, e) == Value(update, e)

\* the merge without the range-to-non-range replacement of lines 135-145
deepMergeAlwaysMerging(existing, update, currentPath, e) ==
  IF ~IsPlainObject(update) THEN Value(update, e)
  ELSE IF ~IsPlainObject(existing) THEN Value(update, e)
  ELSE mergeEntries(existing.f, update.f, ObjectKeys(update.f), 1, currentPath, e)

deepMergeTreeNodes(existing, update, currentPath, e) ==
  IF ~IsPlainObject(update) THEN Value(update, e)
  ELSE IF ~IsPlainObject(existing) THEN Value(update, e)
  ELSE IF isRangeNode(existing) /\ ~isRangeNode(update) THEN Value(update, e)
  ELSE mergeEntries(existing.f, update.f, ObjectKeys(update.f), 1, currentPath, e)

(***************************************************************************)
(* applyUpdate, lines 53-94: the loop over the top-level keys of update.   *)
(* For one key, f = [v, e, ok, store, changed]: the new value, whether it  *)
(* is assigned to treeState[key] and whether changed is set.               *)
(***************************************************************************)
\* lines 73-81: the clone is stored before the operations are applied to it
OpsStored(a) == [v |-> a.v, e |-> a.e, ok |-> a.ok, store |-> TRUE, changed |-> a.ok]

\* lines 89-92
Compared(existing, m) ==
  [v |-> m.v, e |-> m.e, ok |-> m.ok,
   store |-> m.ok /\ Stringify(existing) # Stringify(m.v),
   changed |-> m.ok /\ Stringify(existing) # Stringify(m.v)]

updateField(existing, value, key, e) ==
  IF isDifferentialOps(value)
  THEN IF existingIsRange(existing)
       THEN OpsStored(applyDifferentialOpsToRange(deepClone(existing), value, key, e))
       ELSE [v |-> value, e |-> e, ok |-> TRUE, store |-> TRUE, changed |-> TRUE]
  ELSE Compared(existing, IF IsPlainObject(value) THEN deepMergeTreeNodes(existing, value, key, e) ELSE Value(value, e))

Assigned(f, key) == IF f.store THEN [f.e EXCEPT !.treeState = Put(f.e.treeState, key, f.v)] ELSE f.e

RECURSIVE updateEntries(_, _, _, _, _)
updateNext(update, keys, n, changed, f) ==
  IF ~f.ok THEN [e |-> Assigned(f, keys[n]), changed |-> changed, ok |-> FALSE]
  ELSE updateEntries(update, keys, n + 1, Assigned(f, keys[n]), changed \/ f.changed)

updateEntries(update, keys, n, e, changed) ==
  IF n > Len(keys) THEN [e |-> e, changed |-> changed, ok |-> TRUE]
  ELSE updateNext(update, keys, n, changed, updateField(Get(Obj(e.treeState), keys[n]), update[keys[n]], keys[n], e))

(***************************************************************************)
(* Rendering, lines 362-552 and 697-767.  html is a sequence of text       *)
(* atoms.  A rendering result is [h, e, ok]: the html, the engine state    *)
(* (rendering writes rangeState, rangeIdKeys and treeState) and ok.        *)
(* Loops carry the result so far in acc.                                   *)
(***************************************************************************)
\* template placeholders: strings that start with {{ and end with }}
Placeholders == {"{{x}}"}

IsPlaceholder(v) == IsString(v) /\ v.v \in Placeholders

\* html += s; the empty string adds nothing
Text(s) == IF IsString(s) THEN (IF s.v = "" THEN <<>> ELSE <<s.v>>) ELSE <<"[object]">>

\* html.replace(/<root>/g, "").replace(/<\/root>/g, "")
StripRoot(r) == [r EXCEPT !.h = SelectSeq(r.h, LAMBDA a : a \notin {"<root>", "</root>"})]

\* the elements of a statics array; the length of another value is not a
\* number and its loop does not run (string statics are not among the inputs)
StaticsOf(s) == IF IsArray(s) THEN s.l ELSE <<>>

Rendered(h, e) == [h |-> h, e |-> e, ok |-> TRUE]

Thrown(e) == [h |-> <<>>, e |-> e, ok |-> FALSE]

\* html += <the rendering r that started in state acc.e>
Then(acc, r) == [h |-> acc.h \o r.h, e |-> r.e, ok |-> r.ok]

\* html += s
AddText(acc, s) == [acc EXCEPT !.h = acc.h \o Text(s)]

NumericKeys(f) == SelectSeq(IndexKeys, LAMBDA k : InKeys(f, k))

IndicesOf(l) == [i \in DOMAIN l |-> IntToString(i - 1)]

\* a renderValue that also stores the range it visits in the tree, under
\* its state key
RecordRangeInTree(e, stateKey, value) ==
  IF stateKey = "" THEN e
  ELSE [e EXCEPT !.rangeState = Put(e.rangeState, stateKey, RangeEntry(Get(value, "d"), Get(value, "s"), Get(value, "sm"))),
                 !.rangeIdKeys = RegisterIdKey(e.rangeIdKeys, stateKey, Get(value, "m")),
                 !.treeState = Put(e.treeState, stateKey, value)]

\* lines 418-429: renderValue records the range it is about to render
RecordRange(e, stateKey, value) ==
  IF stateKey = "" THEN e
  ELSE [e EXCEPT !.rangeState = Put(e.rangeState, stateKey, RangeEntry(Get(value, "d"), Get(value, "s"), Get(value, "sm"))),
                 !.rangeIdKeys = RegisterIdKey(e.rangeIdKeys, stateKey, Get(value, "m"))]

\* statePath || fieldKey || ""
StateKey(statePath, fieldKey) == IF statePath # "" THEN statePath ELSE fieldKey

\* addItemsToRange, lines 769-788, on r = [d, s, ik, ok] where s is
\* rangeData.statics
addItemsToRange(r, items, statics, prepend) ==
  IF ~Truthy(items) THEN WithStatics(r, statics)
  ELSE IF prepend THEN [WithStatics(r, statics) EXCEPT !.d = AsItems(items) \o r.d]
  ELSE [WithStatics(r, statics) EXCEPT !.d = r.d \o AsItems(items)]

\* the body of the loop of applyDifferentialOperations, lines 566-670
applyOperationRendering(r, operation, statePath) ==
  IF ~IsArray(operation) \/ Len(operation.l) < 2 THEN r
  ELSE CASE OpType(operation, "r") -> opRemove(r, Find(r, operation, statePath))
         [] OpType(operation, "u") -> opUpdate(r, Find(r, operation, statePath), OpArg(operation, 2))
         [] OpType(operation, "a") -> WithMetaIdKey(addItemsToRange(r, OpArg(operation, 1), OpArg(operation, 2), FALSE), OpArg(operation, 3), statePath)
         [] OpType(operation, "p") -> addItemsToRange(r, OpArg(operation, 1), OpArg(operation, 2), TRUE)
         [] OpType(operation, "i") -> opInsert(r, Find(r, operation, statePath), OpArg(operation, 2))
         [] OpType(operation, "o") -> opReorder(r, reorderItems(r.d, OpArg(operation, 1), statePath, r.ik))
         [] OTHER -> r

RECURSIVE operationsLoopRendering(_, _, _, _)
operationsLoopRendering(r, operations, n, statePath) ==
  IF n > Len(operations) \/ ~r.ok THEN r
  ELSE operationsLoopRendering(applyOperationRendering(r, operations[n], statePath), operations, n + 1, statePath)

\* getCurrentRangeStructure, lines 697-716
getCurrentRangeStructure(e, stateKey) ==
  IF HasEntry(e.rangeState, stateKey)
  THEN Obj([k \in {"d", "s", "sm"} |-> CASE k = "d" -> e.rangeState[stateKey].items
                                          [] k = "s" -> e.rangeState[stateKey].statics
                                          [] OTHER -> e.rangeState[stateKey].staticsMap])
  ELSE IF Truthy(Get(Obj(e.treeState), stateKey)) /\ TypeofObject(Get(Obj(e.treeState), stateKey)) /\ Truthy(Get(Get(Obj(e.treeState), stateKey), "s"))
  THEN Get(Obj(e.treeState), stateKey)
  ELSE Null

\* staticsMap && typeof staticsMap === "object"
HasStaticsMap(staticsMap) == Truthy(staticsMap) /\ TypeofObject(staticsMap)

\* every item rendered with the shared statics
ItemStaticsShared(item, statics, staticsMap) == statics

\* lines 515-518 and 727-735: the statics of one item
ItemStatics(item, statics, staticsMap) ==
  IF HasStaticsMap(staticsMap) /\ Truthy(Get(item, "_sk")) /\ Truthy(Get(staticsMap, PropertyName(Get(item, "_sk"))))
  THEN Get(staticsMap, PropertyName(Get(item, "_sk")))
  ELSE statics

\* the state after the loop of applyDifferentialOperations, lines 672-682;
\* a TypeError in the loop leaves the statics it assigned to rangeData
AfterRenderedOps(e, statePath, r) ==
  IF r.ok
  THEN [e EXCEPT !.rangeState = Put(e.rangeState, statePath, RangeEntry(Arr(r.d), r.s, e.rangeState[statePath].staticsMap)),
                 !.rangeIdKeys = r.ik,
                 !.treeState = Put(e.treeState, statePath, Obj([k \in {"d", "s", "sm"} |-> CASE k = "d" -> Arr(r.d)
                                                                                              [] k = "s" -> r.s
                                                                                              [] OTHER -> e.rangeState[statePath].staticsMap]))]
  ELSE [e EXCEPT !.rangeState = Put(e.rangeState, statePath, [e.rangeState[statePath] EXCEPT !.statics = r.s]),
                 !.rangeIdKeys = r.ik]

RECURSIVE renderValue(_, _, _, _)
RECURSIVE reconstructFromTree(_, _, _)
RECURSIVE renderSlots(_, _, _, _, _)
RECURSIVE renderItems(_, _, _, _, _, _)
RECURSIVE renderEach(_, _, _, _, _, _)
RECURSIVE renderRangeStructure(_, _, _)

\* node[dynamicKey] of the slot after statics[i], if it is to be rendered
\* a loop that renders a slot after the last static as well
renderSlotAfterLast(node, statics, i, statePath, e) ==
  IF Get(node, IntToString(i - 1)) # Undefined
  THEN renderValue(Get(node, IntToString(i - 1)), IntToString(i - 1), JoinPath(statePath, IntToString(i - 1)), e)
  ELSE Rendered(<<>>, e)

renderSlot(node, statics, i, statePath, e) ==
  IF i < Len(statics) /\ Get(node, IntToString(i - 1)) # Undefined
  THEN renderValue(Get(node, IntToString(i - 1)), IntToString(i - 1), JoinPath(statePath, IntToString(i - 1)), e)
  ELSE Rendered(<<>>, e)

\* the loop of lines 366-383, from the i-th static on (i counts from 1); the
\* loops over itemStatics of lines 522-538 and 739-751 are the same loop with
\* the item as node and the path of the item as statePath.  Reading a slot of
\* null or undefined is a TypeError.
renderSlots(node, statics, i, statePath, acc) ==
  IF i > Len(statics) \/ ~acc.ok THEN acc
  ELSE IF i < Len(statics) /\ ~CanRead(node) THEN Thrown(acc.e)
  ELSE renderSlots(node, statics, i + 1, statePath, Then(AddText(acc, statics[i]), renderSlot(node, statics, i, statePath, acc.e)))

\* a rendering that ignores the statics and renders every numbered slot
reconstructEverySlot(node, statePath, e) ==
  renderEach([i \in DOMAIN NumericKeys(SpreadOf(node)) |-> Get(node, NumericKeys(SpreadOf(node))[i])], NumericKeys(SpreadOf(node)), 1, statePath, FALSE, Rendered(<<>>, e))

reconstructFromTree(node, statePath, e) ==
  IF Truthy(Get(node, "s")) /\ IsArray(Get(node, "s"))
  THEN StripRoot(renderSlots(node, Get(node, "s").l, 1, statePath, Rendered(<<>>, e)))
  ELSE renderValue(node, "", statePath, e)

\* the body of the map of lines 513-541 and 725-754
renderItem(item, itemIdx, statics, staticsMap, statePath, e) ==
  IF HasStaticsMap(staticsMap) /\ ~CanRead(item) THEN Thrown(e)
  ELSE renderSlots(item, StaticsOf(ItemStatics(item, statics, staticsMap)), 1, JoinPath(statePath, IntToString(itemIdx)), Rendered(<<>>, e))

\* items.map(...).join("") from the n-th item on
renderItems(items, n, statics, staticsMap, statePath, acc) ==
  IF n > Len(items) \/ ~acc.ok THEN acc
  ELSE renderItems(items, n + 1, statics, staticsMap, statePath, Then(acc, renderItem(items[n], n - 1, statics, staticsMap, statePath, acc.e)))

\* renderItemsWithStatics, lines 718-767
renderItemsWithStatics(items, statics, staticsMap, statePath, e) ==
  renderItems(items, 1, statics, staticsMap, statePath, Rendered(<<>>, e))

\* lines 466-469: an array element with statics is rendered as a tree
renderElement(item, itemKey, itemStatePath, asTree, e) ==
  IF asTree /\ TypeofObject(item) /\ Truthy(item) /\ Truthy(Get(item, "s"))
  THEN reconstructFromTree(item, itemStatePath, e)
  ELSE renderValue(item, itemKey, itemStatePath, e)

\* values.map(...).join("") of lines 444-449, 462-471 and 545-551, from the
\* n-th value on; keys[n] is the key of values[n]
renderEach(values, keys, n, statePath, asTree, acc) ==
  IF n > Len(values) \/ ~acc.ok THEN acc
  ELSE renderEach(values, keys, n + 1, statePath, asTree, Then(acc, renderElement(values[n], keys[n], JoinPath(statePath, keys[n]), asTree, acc.e)))

\* renderRangeStructure, lines 488-552, for the node renderValue found to
\* have arrays d and s
renderRangeStructure(rangeNode, statePath, e) ==
  IF Len(Get(rangeNode, "d").l) = 0
  THEN IF Truthy(Get(rangeNode, "else"))
       THEN renderValue(Get(rangeNode, "else"), "else", JoinPath(statePath, "else"), e)
       ELSE Rendered(<<>>, e)
  ELSE IF Truthy(Get(rangeNode, "s")) /\ IsArray(Get(rangeNode, "s"))
  THEN renderItems(Get(rangeNode, "d").l, 1, Get(rangeNode, "s"), Get(rangeNode, "sm"), statePath, Rendered(<<>>, e))
  ELSE renderEach(Get(rangeNode, "d").l, IndicesOf(Get(rangeNode, "d").l), 1, statePath, FALSE, Rendered(<<>>, e))

\* lines 684-694: currentItems rendered with the statics of the range state
\* (line 694 renders each item on its own when there are none)
renderCurrentItems(items, rangeStructure, statePath, e) ==
  IF Truthy(rangeStructure) /\ Truthy(Get(rangeStructure, "s"))
  THEN renderItemsWithStatics(items, Get(rangeStructure, "s"), Get(rangeStructure, "sm"), statePath, e)
  ELSE renderEach(items, [i \in DOMAIN items |-> ""], 1, "", FALSE, Rendered(<<>>, e))

\* lines 672-694, for the outcome r of the loop
renderAfterOps(r, statePath, e) ==
  IF ~r.ok THEN Thrown(AfterRenderedOps(e, statePath, r))
  ELSE renderCurrentItems(r.d, getCurrentRangeStructure(AfterRenderedOps(e, statePath, r), statePath), statePath, AfterRenderedOps(e, statePath, r))

\* operations found in the tree rendered as the array they are, index or not
applyDifferentialOperationsAsArray(operations, statePath, e) ==
  renderEach(operations.l, IndicesOf(operations.l), 1, statePath, TRUE, Rendered(<<>>, e))

\* applyDifferentialOperations, lines 554-695: operations found in the tree
\* are applied to a copy of the items of rangeState[statePath]
applyDifferentialOperations(operations, statePath, e) ==
  IF statePath = "" \/ ~HasEntry(e.rangeState, statePath) THEN Rendered(<<>>, e)
  ELSE renderAfterOps(operationsLoopRendering([d |-> e.rangeState[statePath].items.l, s |-> e.rangeState[statePath].statics,
                                               ik |-> e.rangeIdKeys, ok |-> TRUE], operations.l, 1, statePath),
                      statePath, e)

renderValue(value, fieldKey, statePath, e) ==
  CASE ~CanRead(value) -> Rendered(<<>>, e)
    [] IsString(value) -> IF IsPlaceholder(value) THEN Rendered(<<>>, e) ELSE Rendered(Text(value), e)
    [] IsPlainObject(value) ->
         IF IsArray(Get(value, "d")) /\ IsArray(Get(value, "s"))
         THEN renderRangeStructure(value, statePath, RecordRange(e, StateKey(statePath, fieldKey), value))
         ELSE IF IsArray(Get(value, "s")) THEN reconstructFromTree(value, statePath, e)
         ELSE IF DOMAIN value.f # {} /\ \A k \in DOMAIN value.f : IsNumericKey(k)
         THEN renderEach([i \in DOMAIN NumericKeys(value.f) |-> value.f[NumericKeys(value.f)[i]]], NumericKeys(value.f), 1, statePath, FALSE, Rendered(<<>>, e))
         ELSE Rendered(<<>>, e)
    [] OTHER ->
         IF isDifferentialOps(value) THEN applyDifferentialOperations(value, statePath, e)
         ELSE renderEach(value.l, IndicesOf(value.l), 1, statePath, TRUE, Rendered(<<>>, e))

(***************************************************************************)
(* applyUpdate, lines 53-98.  The result is [e, html, changed, threw].     *)
(***************************************************************************)
\* what the caller has after a TypeError: no return value
Threw(e) == [e |-> e, html |-> <<>>, changed |-> FALSE, threw |-> TRUE]

\* line 97, or the TypeError of the render r
Returning(changed, r) ==
  IF r.ok THEN [e |-> r.e, html |-> r.h, changed |-> changed, threw |-> FALSE] ELSE Threw(r.e)

\* line 96, after the loop u over the keys of the update
Rendering(u) ==
  IF ~u.ok THEN Threw(u.e)
  ELSE Returning(u.changed, reconstructFromTree(Obj(u.e.treeState), "", u.e))

applyUpdate(update, e) == Rendering(updateEntries(update.f, ObjectKeys(update.f), 1, e, FALSE))

\* getTreeState, lines 106-108: a copy of the root whose values are the
\* objects of the tree themselves
getTreeState(tree) == [k \in DOMAIN tree |-> tree[k]]

\* getStaticStructure, lines 110-112
getStaticStructure(tree) == IF Truthy(Get(Obj(tree), "s")) THEN Get(Obj(tree), "s") ELSE Null

RECURSIVE WriteAt(_, _, _)
\* node after the in-place write w = <<path, old, new>>: the object stored
\* at path, if it is still the object old, now has the contents new
WriteAt(node, nodePath, w) ==
  IF nodePath = w[1] THEN (IF node = w[2] THEN w[3] ELSE node)
  ELSE IF IsPlainObject(node) THEN Obj([k \in DOMAIN node.f |-> WriteAt(node.f[k], JoinPath(nodePath, k), w)])
  ELSE node

RECURSIVE WriteThrough(_, _)
\* what the holder of a snapshot sees after the in-place writes ws
WriteThrough(snap, ws) ==
  IF ws = {} THEN snap
  ELSE WriteThrough([k \in DOMAIN snap |-> WriteAt(snap[k], k, CHOOSE x \in ws : TRUE)], ws \ {CHOOSE x \in ws : TRUE})

NoUpdate == Undefined

NoResult == [html |-> <<>>, changed |-> FALSE, threw |-> FALSE]

NoSnapshot == [held |-> FALSE, tree |-> EmptyMap]

\* an update object as its holder sees it after the in-place writes ws
Seen(update, ws) == Obj(WriteThrough(update.f, ws))

\* the update objects the caller holds after a call that was handed update
\* and made the in-place writes ws
SentAfter(held, update, ws) ==
  {[sent |-> h.sent, now |-> Seen(h.now, ws)] : h \in held} \cup {[sent |-> update, now |-> Seen(update, ws)]}

NoBefore == [treeState |-> EmptyMap, rangeState |-> EmptyMap, rangeIdKeys |-> EmptyMap, lastUpdate |-> NoUpdate, result |-> NoResult]

(***************************************************************************)
(* The updates a server sends.  Items, statics and nodes of the sessions.  *)
(***************************************************************************)
\* an object literal from a sequence of <<key, value>> pairs
O(pairs) == Obj([k \in {pairs[i][1] : i \in DOMAIN pairs} |-> pairs[CHOOSE i \in DOMAIN pairs : pairs[i][1] = k][2]])

\* an array of strings
SA(strs) == Arr([i \in DOMAIN strs |-> Str(strs[i])])

Item(key, text) == O(<< <<"0", Str(text)>>, <<"_k", Str(key)>> >>)

Apple == Item("1", "Apple")

Banana == Item("2", "Banana")

Cherry == Item("3", "Cherry")

Damson == Item("4", "Damson")

Elder == Item("5", "Elder")

Fig == Item("6", "Fig")

LiStatics == SA(<<"<li>", "</li>">>)

BStatics == SA(<<"<b>", "</b>">>)

IdKeyMeta == O(<< <<"idKey", Str("_k")>> >>)

Range(items, statics) == O(<< <<"d", Arr(items)>>, <<"s", statics>> >>)

KeyedRange(items, statics) == O(<< <<"d", Arr(items)>>, <<"s", statics>>, <<"m", IdKeyMeta>> >>)

Op1(code, a) == Arr(<<Str(code), a>>)

Op2(code, a, b) == Arr(<<Str(code), a, b>>)

Op3(code, a, b, c) == Arr(<<Str(code), a, b, c>>)

Ops(ops) == Arr(ops)

RootStatics == SA(<<"<div>", "|", "</div>">>)

UlStatics == SA(<<"<ul>", "</ul>">>)

SectionStatics == SA(<<"<section>", "</section>">>)

ElseWithSlot == O(<< <<"s", SA(<<"<p>", "</p>">>)>>, <<"0", Str("None")>> >>)

ElseStaticsOnly == O(<< <<"s", SA(<<"<p>Hidden</p>">>)>> >>)

\* a Range whose else branch is itself a Range
RangeWithElse == O(<< <<"d", Arr(<<>>)>>, <<"s", LiStatics>>, <<"else", Range(<<Damson>>, BStatics)>>, <<"sm", O(<< <<"A", UlStatics>> >>)>> >>)

At0(v) == O(<< <<"0", v>> >>)

\* the session of full and partial tree updates: ranges at depth 1, 2 and 3,
\* else branches replacing them, ranges replacing ranges, dynamics-only updates
MergeUpdates ==
  { O(<< <<"s", RootStatics>>, <<"0", KeyedRange(<<Apple, Banana>>, LiStatics)>>, <<"1", Str("t")>> >>),
    O(<< <<"s", RootStatics>>, <<"0", O(<< <<"s", UlStatics>>, <<"0", Range(<<Apple, Banana>>, LiStatics)>> >>)>>, <<"1", Str("t")>> >>),
    O(<< <<"s", RootStatics>>, <<"0", O(<< <<"s", SectionStatics>>, <<"0", O(<< <<"s", UlStatics>>, <<"0", Range(<<Apple, Banana>>, LiStatics)>> >>)>> >>)>> >>),
    O(<< <<"s", RootStatics>>, <<"0", RangeWithElse>> >>),
    At0(ElseWithSlot),
    At0(ElseStaticsOnly),
    At0(At0(ElseWithSlot)),
    At0(At0(At0(ElseStaticsOnly))),
    At0(Range(<<Cherry>>, BStatics)),
    At0(At0(Range(<<Cherry>>, BStatics))),
    At0(O(<< <<"else", Range(<<Elder>>, LiStatics)>> >>)),
    At0(O(<< <<"d", Arr(<<Fig>>)>> >>)),
    At0(At0(Str("x"))),
    O(<< <<"1", Str("u")>> >>) }

AppendCherry == Op1("a", Cherry)

\* the session of differential operations on a keyed and an unkeyed range,
\* at top level and nested, with an else branch in between
OpsUpdates ==
  { O(<< <<"s", RootStatics>>, <<"0", KeyedRange(<<Apple, Banana>>, LiStatics)>>, <<"1", Str("t")>> >>),
    O(<< <<"s", RootStatics>>, <<"0", O(<< <<"s", UlStatics>>, <<"0", KeyedRange(<<Apple, Banana>>, LiStatics)>> >>)>> >>),
    At0(Range(<<Damson, Elder>>, BStatics)),
    At0(ElseWithSlot),
    At0(Ops(<<AppendCherry>>)),
    At0(Ops(<<Op2("a", Arr(<<Cherry, Apple>>), BStatics)>>)),
    At0(Ops(<<Op3("a", Cherry, Null, IdKeyMeta), Op1("r", Str("1"))>>)),
    At0(Ops(<<Op1("p", Cherry)>>)),
    At0(Ops(<<Op2("i", Str("1"), Cherry)>>)),
    At0(Ops(<<Op1("r", Str("2"))>>)),
    At0(Ops(<<Op1("r", Str("4"))>>)),
    At0(Ops(<<Op2("u", Str("2"), At0(Str("Berry")))>>)),
    At0(Ops(<<Op1("o", SA(<<"2", "1">>))>>)),
    At0(Ops(<<Op1("o", SA(<<"3", "1", "1">>))>>)),
    At0(At0(Ops(<<AppendCherry, Op1("o", SA(<<"3", "2">>))>>))),
    At0(At0(Ops(<<Op1("r", Str("1"))>>))),
    At0(At0(Ops(<<AppendCherry, Op2("a", Arr(<<Damson, Fig>>), BStatics)>>))) }

\* an item with a Fragment in its second field
Pear == O(<< <<"0", Str("Pear")>>, <<"_k", Str("3")>>, <<"1", O(<< <<"s", SA(<<"<em>", "</em>">>)>>, <<"0", Str("in")>> >>)>> >>)

\* the session of locate-by-key operations on a keyed range, at top level
\* and nested: inserts of one item and of a list, updates of a scalar and of
\* a Fragment field, reorders with keys repeated or unknown, operations
\* whose key no item carries, an opcode that does not exist, and an else
\* branch in between
KeyedUpdates ==
  { O(<< <<"s", RootStatics>>, <<"0", KeyedRange(<<Apple, Banana>>, LiStatics)>>, <<"1", Str("t")>> >>),
    O(<< <<"s", RootStatics>>, <<"0", O(<< <<"s", UlStatics>>, <<"0", KeyedRange(<<Apple, Pear>>, LiStatics)>> >>)>> >>),
    At0(ElseWithSlot),
    At0(Ops(<<Op2("i", Str("1"), Cherry)>>)),
    At0(Ops(<<Op2("i", Str("2"), Arr(<<Damson, Elder>>))>>)),
    At0(Ops(<<Op2("i", Str("9"), Cherry)>>)),
    At0(At0(Ops(<<AppendCherry, Op2("i", Str("1"), Arr(<<Damson, Elder>>))>>))),
    At0(Ops(<<Op2("u", Str("2"), At0(Str("Berry")))>>)),
    At0(Ops(<<Op2("u", Str("9"), At0(Str("Berry")))>>)),
    At0(At0(Ops(<<Op2("u", Str("3"), O(<< <<"1", At0(Str("out"))>> >>))>>))),
    At0(Ops(<<Op1("o", SA(<<"2", "1">>))>>)),
    At0(Ops(<<Op1("o", SA(<<"1", "1", "1">>))>>)),
    At0(At0(Ops(<<Op1("o", SA(<<"3", "9">>))>>))),
    At0(Ops(<<Op1("z", Str("1"))>>)),
    At0(At0(Ops(<<AppendCherry, Op2("z", Str("1"), Cherry), Op1("r", Str("1"))>>))) }

\* the session of Fragments and of nodes that are nearly Ranges: a tree in
\* the synthetic <root> wrapper, Fragments with a slot that is not stored
\* and with a slot that their statics leave no place for, and nodes whose d
\* or s is missing or is not an array
FragmentUpdates ==
  { O(<< <<"s", SA(<<"<root>", "</root>">>)>>, <<"0", O(<< <<"s", RootStatics>>, <<"0", KeyedRange(<<Apple, Banana>>, LiStatics)>> >>)>> >>),
    O(<< <<"s", RootStatics>>, <<"0", ElseWithSlot>>, <<"1", Str("t")>> >>),
    At0(ElseStaticsOnly),
    At0(At0(Str("x"))),
    O(<< <<"1", Str("u")>> >>),
    O(<< <<"2", Str("beyond")>> >>),
    At0(O(<< <<"d", Str("x")>>, <<"s", LiStatics>> >>)),
    At0(O(<< <<"d", Arr(<<Apple>>)>>, <<"s", Str("x")>> >>)),
    At0(O(<< <<"d", Arr(<<Apple>>)>> >>)),
    At0(At0(O(<< <<"d", Null>>, <<"s", LiStatics>>, <<"0", Str("in")>> >>))) }

\* the session of malformed protocol input next to well-formed updates
MalformedUpdates ==
  { O(<< <<"s", RootStatics>>, <<"0", KeyedRange(<<Apple, Banana>>, LiStatics)>>, <<"1", Str("t")>> >>),
    O(<< <<"s", RootStatics>>, <<"0", Range(<<Apple, Null>>, LiStatics)>>, <<"1", Str("t")>> >>),
    At0(Ops(<<Op1("a", Null)>>)),
    At0(Ops(<<Op1("o", O(<<>>))>>)),
    At0(Ops(<<Arr(<<Str("r")>>), Op1("z", Str("1")), AppendCherry>>)),
    At0(Ops(<<Op1("r", Str("1"))>>)),
    At0(ElseWithSlot),
    O(<< <<"1", Str("u")>> >>) }

SkItem(key, text, sk) == O(<< <<"0", Str(text)>>, <<"_k", Str(key)>>, <<"_sk", Str(sk)>> >>)

Grape == SkItem("7", "Grape", "A")

Hazel == SkItem("8", "Hazel", "B")

\* an item whose _sk is not in the map
Iris == SkItem("9", "Iris", "Z")

StaticsMapAB == O(<< <<"A", SA(<<"<i>", "</i>">>)>>, <<"B", SA(<<"<u>", "</u>">>)>> >>)

MappedRange(items, statics) == O(<< <<"d", Arr(items)>>, <<"s", statics>>, <<"sm", StaticsMapAB>>, <<"m", IdKeyMeta>> >>)

\* the session of ranges that carry a staticsMap: full updates, operations
\* on the stored Range, and operations kept in the tree after an else branch
StaticsMapUpdates ==
  { O(<< <<"s", RootStatics>>, <<"0", MappedRange(<<Grape, Apple, Hazel, Iris>>, LiStatics)>>, <<"1", Str("t")>> >>),
    O(<< <<"s", RootStatics>>, <<"0", O(<< <<"s", UlStatics>>, <<"0", MappedRange(<<Hazel, Grape>>, LiStatics)>> >>)>> >>),
    At0(Range(<<Grape, Cherry>>, BStatics)),
    At0(ElseWithSlot),
    At0(Ops(<<Op1("a", Hazel)>>)),
    At0(Ops(<<Op1("r", Str("7"))>>)),
    At0(Ops(<<Op2("p", Arr(<<Iris, Banana>>), BStatics)>>)),
    At0(At0(Ops(<<Op1("a", Arr(<<Damson, Grape>>))>>))) }

Sessions == {"merge", "ops", "malformed", "statics", "two", "transport", "placeholders", "uploads", "keyed", "fragments",
             "sockets"}

UpdatesOf(s) == CASE s = "merge" -> MergeUpdates
                  [] s = "ops" -> OpsUpdates
                  [] s = "statics" -> StaticsMapUpdates
                  [] s = "keyed" -> KeyedUpdates
                  [] s = "fragments" -> FragmentUpdates
                  [] OTHER -> MalformedUpdates

\* the number of applyUpdate calls of a behaviour
MaxCalls == 3

(***************************************************************************)
(* WebSocketTransport, src/unnamed/part_022 lines 220-311.  t is the       *)
(* transport: its fields socket (ref: it is not null; socket: the          *)
(* readyState of the WebSocket created last), reconnectTimer,              *)
(* manuallyClosed and reconnectAttempts, with the calls made to            *)
(* options.onReconnectAttempt (their number and the arguments of the last) *)
(* and to options.onReconnectFailed.  o is the options object.             *)
(***************************************************************************)
Num(n) == [t |-> "number", v |-> n]

\* v ?? d for a numeric option
OrDefault(v, d) == IF v = Undefined THEN d ELSE v.v

NoTimer == [set |-> FALSE, delay |-> 0]

\* window.setTimeout(callback, delay)
Timeout(delay) == [set |-> TRUE, delay |-> delay]

NoAttempt == [attempt |-> 0, delay |-> 0]

NewTransport ==
  [socket |-> "none", ref |-> FALSE, reconnectTimer |-> NoTimer, manuallyClosed |-> FALSE, reconnectAttempts |-> 0,
   attemptCalls |-> 0, lastAttempt |-> NoAttempt, failedCalls |-> 0]

RECURSIVE Pow2(_)
\* Math.pow(2, n)
Pow2(n) == IF n <= 0 THEN 1 ELSE 2 * Pow2(n - 1)

Min(a, b) == IF a <= b THEN a ELSE b

\* lines 305-310
clearReconnectTimer(t) == [t EXCEPT !.reconnectTimer = NoTimer]

\* lines 228-233: the handlers of lines 235-254 are those of onopen and
\* onclose below
connect(t) == [clearReconnectTimer(t) EXCEPT !.manuallyClosed = FALSE, !.socket = "connecting", !.ref = TRUE]

\* socket.close() of the browser: the close event comes later
CloseCalled(readyState) == IF readyState \in {"connecting", "open"} THEN "closing" ELSE readyState

\* a disconnect that leaves a pending reconnect timer alone
disconnectKeepingTimer(t) ==
  IF t.ref THEN [t EXCEPT !.manuallyClosed = TRUE, !.socket = CloseCalled(t.socket), !.ref = FALSE]
  ELSE [t EXCEPT !.manuallyClosed = TRUE]

\* lines 263-270
disconnect(t) ==
  IF t.ref THEN [clearReconnectTimer(t) EXCEPT !.manuallyClosed = TRUE, !.socket = CloseCalled(t.socket), !.ref = FALSE]
  ELSE [clearReconnectTimer(t) EXCEPT !.manuallyClosed = TRUE]

\* an open handler that keeps the count
onopenKeepingCount(t) == t

\* socket.onopen, lines 235-239
onopen(t) == [t EXCEPT !.reconnectAttempts = 0]

\* lines 289-291: baseDelay * Math.pow(2, this.reconnectAttempts - 1)
exponentialDelay(o, attempts) == OrDefault(o.reconnectDelay, 1000) * Pow2(attempts - 1)

\* lines 286-302: the timer of the next attempt
Scheduled(t, o, jitter) ==
  [t EXCEPT !.reconnectAttempts = t.reconnectAttempts + 1,
            !.reconnectTimer = Timeout(Min(exponentialDelay(o, t.reconnectAttempts + 1) + jitter, OrDefault(o.maxReconnectDelay, 16000)))]

\* a schedule with no limit on the attempts
scheduleReconnectUnlimited(t, o, jitter) == Scheduled(clearReconnectTimer(t), o, jitter)

\* a schedule whose delay has no cap
scheduleReconnectUncapped(t, o, jitter) ==
  IF OrDefault(o.maxReconnectAttempts, 10) > 0 /\ t.reconnectAttempts >= OrDefault(o.maxReconnectAttempts, 10)
  THEN [clearReconnectTimer(t) EXCEPT !.failedCalls = t.failedCalls + 1]
  ELSE [t EXCEPT !.reconnectAttempts = t.reconnectAttempts + 1,
                 !.reconnectTimer = Timeout(exponentialDelay(o, t.reconnectAttempts + 1) + jitter)]

\* lines 276-303; jitter is Math.random() * 1000
scheduleReconnect(t, o, jitter) ==
  IF OrDefault(o.maxReconnectAttempts, 10) > 0 /\ t.reconnectAttempts >= OrDefault(o.maxReconnectAttempts, 10)
  THEN [clearReconnectTimer(t) EXCEPT !.failedCalls = t.failedCalls + 1]
  ELSE Scheduled(clearReconnectTimer(t), o, jitter)

\* socket.onclose, lines 245-250
onclose(t, o, jitter) ==
  IF ~t.manuallyClosed /\ o.autoReconnect THEN scheduleReconnect(t, o, jitter) ELSE t

\* the callback of the timer, lines 299-302
onTimeout(t) ==
  connect([t EXCEPT !.attemptCalls = t.attemptCalls + 1,
                    !.lastAttempt = [attempt |-> t.reconnectAttempts, delay |-> t.reconnectTimer.delay]])

\* the options a transport is constructed with: WebSocketManager.connect
\* (lines 346-351) passes 16000 and 10, the tests other values or none
Options(autoReconnect, reconnectDelay, maxReconnectDelay, maxReconnectAttempts) ==
  [autoReconnect |-> autoReconnect, reconnectDelay |-> reconnectDelay,
   maxReconnectDelay |-> maxReconnectDelay, maxReconnectAttempts |-> maxReconnectAttempts]

DefaultOptions == Options(TRUE, Undefined, Num(16000), Num(10))

OptionsOfModel ==
  {Options(a, d, m, n) : a \in BOOLEAN, d \in {Undefined, Num(100)}, m \in {Undefined, Num(1000)},
                         n \in {Undefined, Num(3), Num(0)}}

\* values of Math.random() * 1000
Jitters == {0, 500, 999}

\* the WebSocket objects one transport creates in a behaviour
MaxSockets == 11

\* the sockets that the transport created and refers to no longer, and whose
\* close event is still to come, counted by readyState
NoSockets == [connecting |-> 0, open |-> 0, closing |-> 0]

\* this.socket = new WebSocket(...), line 232, and this.socket = null, line
\* 268: the socket that was there is kept by the browser until it closes
Discard(sockets, readyState) ==
  IF readyState \in DOMAIN sockets THEN [sockets EXCEPT ![readyState] = sockets[readyState] + 1] ELSE sockets

\* created: WebSockets constructed.  opens: open events.  sinceOpen: calls
\* of onReconnectAttempt since the last open event (or since construction).
\* beforeOpen: that number at the last open event.  disconnected:
\* disconnect() was called and connect() not since.  atDisconnect: what the
\* transport was doing when disconnect() was called.
NoLog == [created |-> 0, opens |-> 0, sinceOpen |-> 0, beforeOpen |-> 0, disconnected |-> FALSE, atDisconnect |-> "none"]

(***************************************************************************)
(* The state machine                                                       *)
(***************************************************************************)
\* new TreeRenderer(logger), lines 46-51
NewInstance == [treeState |-> EmptyMap, rangeState |-> EmptyMap, rangeIdKeys |-> EmptyMap, result |-> NoResult, calls |-> 0]

InitEngine == /\ treeState = EmptyMap
              /\ rangeState = EmptyMap
              /\ rangeIdKeys = EmptyMap
              /\ lastUpdate = NoUpdate
              /\ result = NoResult
              /\ snapshot = NoSnapshot
              /\ calls = 0
              /\ before = NoBefore
              /\ other = NewInstance
              /\ paired = TRUE
              /\ actor = "none"
              /\ sent = {}

\* no transport in use
InitTransport == transport = NewTransport /\ options = DefaultOptions /\ wsLog = NoLog /\ discarded = NoSockets

\* new UploadHandler(sendMessage): upload-handler.ts lines 27-47
InitUpload ==
  /\ pendingFiles = EmptyMap
  /\ entries = {}
  /\ objects = EmptyMap
  /\ tasks = EmptyMap
  /\ outbox = <<>>
  /\ timers = EmptyMap
  /\ received = <<>>
  /\ triggered = {}

Init == InitEngine /\ InitTransport /\ InitUpload /\ session = "merge"

InitOps == InitEngine /\ InitTransport /\ InitUpload /\ session = "ops"

InitMalformed == InitEngine /\ InitTransport /\ InitUpload /\ session = "malformed"

\* the fields of the engine as applyUpdate finds them
Engine == [treeState |-> treeState, rangeState |-> rangeState, rangeIdKeys |-> rangeIdKeys, writes |-> {}]

\* the fields of the engine and the caller's variables after applyUpdate
\* returned or threw out
Returned(update, out) ==
  /\ treeState' = out.e.treeState
  /\ rangeState' = out.e.rangeState
  /\ rangeIdKeys' = out.e.rangeIdKeys
  /\ result' = [html |-> out.html, changed |-> out.changed, threw |-> out.threw]
  /\ snapshot' = [snapshot EXCEPT !.tree = WriteThrough(snapshot.tree, out.e.writes)]
  /\ lastUpdate' = update
  /\ before' = [treeState |-> treeState, rangeState |-> rangeState, rangeIdKeys |-> rangeIdKeys, lastUpdate |-> lastUpdate, result |-> result]
  /\ calls' = calls + 1
  /\ sent' = SentAfter(sent, update, out.e.writes)
  /\ UNCHANGED <<session, transportVars, uploadVars>>

\* an object of the update that the other instance holds as well is seen
\* there with the writes made to it
ReturnedToThis(update, out) ==
  /\ Returned(update, out)
  /\ other' = [other EXCEPT !.treeState = WriteThrough(other.treeState, out.e.writes)]
  /\ paired' = FALSE
  /\ actor' = "this"

\* renderer.applyUpdate(update)
ApplyUpdate(update) ==
  /\ calls < MaxCalls
  /\ ReturnedToThis(update, applyUpdate(update, Engine))

\* the fields after reset(), lines 100-104, whatever they were
resetKeepingKeys == [treeState |-> EmptyMap, rangeState |-> EmptyMap, rangeIdKeys |-> rangeIdKeys]

reset == [treeState |-> EmptyMap, rangeState |-> EmptyMap, rangeIdKeys |-> EmptyMap]

\* renderer.reset() as its caller sees it
ResetThis ==
  /\ treeState' = reset.treeState
  /\ rangeState' = reset.rangeState
  /\ rangeIdKeys' = reset.rangeIdKeys
  /\ lastUpdate' = NoUpdate
  /\ before' = NoBefore
  /\ UNCHANGED <<result, snapshot, calls, session, sent, transportVars, uploadVars>>

\* renderer.reset()
Reset ==
  /\ ResetThis
  /\ paired' = FALSE
  /\ actor' = "this"
  /\ UNCHANGED other

\* const snap = renderer.getTreeState()
GetTreeState ==
  /\ snapshot' = [held |-> TRUE, tree |-> getTreeState(treeState)]
  /\ UNCHANGED <<treeState, rangeState, rangeIdKeys, lastUpdate, result, calls, session, before, other, paired, actor, sent>>
  /\ UNCHANGED <<transportVars, uploadVars>>

Next == \/ \E update \in UpdatesOf(session) : ApplyUpdate(update)
        \/ Reset
        \/ GetTreeState

Spec == Init /\ [][Next]_vars

SpecOps == InitOps /\ [][Next]_vars

SpecMalformed == InitMalformed /\ [][Next]_vars

InitStatics == InitEngine /\ InitTransport /\ InitUpload /\ session = "statics"

SpecStatics == InitStatics /\ [][Next]_vars

InitKeyed == InitEngine /\ InitTransport /\ InitUpload /\ session = "keyed"

SpecKeyed == InitKeyed /\ [][Next]_vars

InitFragments == InitEngine /\ InitTransport /\ InitUpload /\ session = "fragments"

SpecFragments == InitFragments /\ [][Next]_vars

(***************************************************************************)
(* Two instances, as src/oracle-server.js lines 31-65 creates one per      *)
(* request: calls on either of them, and the same update handed to both.   *)
(***************************************************************************)
\* the fields of the other instance as its applyUpdate finds them
OtherEngine(tree) == [treeState |-> tree, rangeState |-> other.rangeState, rangeIdKeys |-> other.rangeIdKeys, writes |-> {}]

\* the other instance after its applyUpdate returned or threw out
OtherAfter(out) ==
  [treeState |-> out.e.treeState, rangeState |-> out.e.rangeState, rangeIdKeys |-> out.e.rangeIdKeys,
   result |-> [html |-> out.html, changed |-> out.changed, threw |-> out.threw], calls |-> other.calls + 1]

ReturnedToOther(out) ==
  /\ other' = OtherAfter(out)
  /\ treeState' = WriteThrough(treeState, out.e.writes)
  /\ snapshot' = [snapshot EXCEPT !.tree = WriteThrough(snapshot.tree, out.e.writes)]
  /\ paired' = FALSE
  /\ actor' = "other"
  /\ sent' = {[sent |-> h.sent, now |-> Seen(h.now, out.e.writes)] : h \in sent}
  /\ UNCHANGED <<rangeState, rangeIdKeys, lastUpdate, result, calls, session, before>>
  /\ UNCHANGED <<transportVars, uploadVars>>

\* otherRenderer.applyUpdate(update)
ApplyOther(update) ==
  /\ other.calls < MaxCalls
  /\ ReturnedToOther(applyUpdate(update, OtherEngine(other.treeState)))

\* both calls returned: out from this instance, then outOther from the other
ReturnedToBoth(update, out, outOther) ==
  /\ Returned(update, [out EXCEPT !.e.treeState = WriteThrough(out.e.treeState, outOther.e.writes),
                                  !.e.writes = out.e.writes \cup outOther.e.writes])
  /\ other' = OtherAfter(outOther)
  /\ actor' = "both"
  /\ UNCHANGED paired

ThenOther(update, out) ==
  ReturnedToBoth(update, out, applyUpdate(update, OtherEngine(WriteThrough(other.treeState, out.e.writes))))

\* renderer.applyUpdate(update); otherRenderer.applyUpdate(update): the same
\* update object handed to both instances
ApplyBoth(update) ==
  /\ calls < MaxCalls
  /\ other.calls < MaxCalls
  /\ ThenOther(update, applyUpdate(update, Engine))

\* otherRenderer.reset()
ResetOther ==
  /\ other' = [other EXCEPT !.treeState = reset.treeState, !.rangeState = reset.rangeState, !.rangeIdKeys = reset.rangeIdKeys]
  /\ paired' = FALSE
  /\ actor' = "other"
  /\ UNCHANGED <<treeState, rangeState, rangeIdKeys, lastUpdate, result, snapshot, calls, session, before, sent>>
  /\ UNCHANGED <<transportVars, uploadVars>>

\* renderer.reset(); otherRenderer = new TreeRenderer(logger)
ResetBesideNew ==
  /\ ResetThis
  /\ other' = NewInstance
  /\ paired' = TRUE
  /\ actor' = "both"

\* the session of two instances: a keyed Range, operations on it, an else
\* branch
TwoInstanceUpdates ==
  { O(<< <<"s", RootStatics>>, <<"0", KeyedRange(<<Apple, Banana>>, LiStatics)>>, <<"1", Str("t")>> >>),
    At0(Ops(<<AppendCherry>>)),
    At0(Ops(<<Op1("r", Str("1"))>>)),
    At0(ElseWithSlot) }

InitTwo == InitEngine /\ InitTransport /\ InitUpload /\ session = "two"

NextTwo == \/ \E update \in TwoInstanceUpdates : ApplyUpdate(update)
           \/ \E update \in TwoInstanceUpdates : ApplyOther(update)
           \/ \E update \in TwoInstanceUpdates : ApplyBoth(update)
           \/ Reset
           \/ ResetOther
           \/ ResetBesideNew

SpecTwo == InitTwo /\ [][NextTwo]_vars

(***************************************************************************)
(* The transport in use: WebSocketManager (part_022 lines 329-384) makes a *)
(* transport, connects it once and drops it at disconnect; the browser     *)
(* delivers the open and close events of its sockets and runs its timer.   *)
(***************************************************************************)
\* what the transport is doing: waiting for its timer, or the readyState of
\* its socket
Doing(t) == IF t.reconnectTimer.set THEN "timer" ELSE t.socket

\* WebSocketManager.connect, line 377: this.transport.connect()
Connect ==
  /\ wsLog.created = 0
  /\ transport' = connect(transport)
  /\ wsLog' = [wsLog EXCEPT !.created = 1, !.disconnected = FALSE]
  /\ UNCHANGED <<options, discarded>>
  /\ UNCHANGED <<engineVars, uploadVars>>

\* WebSocketManager.disconnect, lines 381-384
Disconnect ==
  /\ wsLog.created > 0
  /\ ~wsLog.disconnected
  /\ transport' = disconnect(transport)
  /\ wsLog' = [wsLog EXCEPT !.disconnected = TRUE, !.atDisconnect = Doing(transport)]
  /\ UNCHANGED <<options, discarded>>
  /\ UNCHANGED <<engineVars, uploadVars>>

\* the open event of the socket
SocketOpens ==
  /\ transport.socket = "connecting"
  /\ transport' = onopen([transport EXCEPT !.socket = "open"])
  /\ wsLog' = [wsLog EXCEPT !.opens = wsLog.opens + 1, !.beforeOpen = wsLog.sinceOpen, !.sinceOpen = 0]
  /\ UNCHANGED <<options, discarded>>
  /\ UNCHANGED <<engineVars, uploadVars>>

\* the close event of the socket: the connection failed, was lost, or was
\* closed by disconnect()
SocketCloses ==
  /\ transport.socket \in {"connecting", "open", "closing"}
  /\ \E jitter \in Jitters : transport' = onclose([transport EXCEPT !.socket = "closed"], options, jitter)
  /\ UNCHANGED <<options, wsLog, discarded>>
  /\ UNCHANGED <<engineVars, uploadVars>>

\* the reconnect timer expires
TimerFires ==
  /\ transport.reconnectTimer.set
  /\ wsLog.created < MaxSockets
  /\ transport' = onTimeout(transport)
  /\ wsLog' = [wsLog EXCEPT !.created = wsLog.created + 1, !.sinceOpen = wsLog.sinceOpen + 1, !.disconnected = FALSE]
  /\ discarded' = Discard(discarded, transport.socket)
  /\ UNCHANGED options
  /\ UNCHANGED <<engineVars, uploadVars>>

InitTransportInUse ==
  /\ InitEngine
  /\ session = "transport"
  /\ transport = NewTransport
  /\ options \in OptionsOfModel
  /\ wsLog = NoLog
  /\ discarded = NoSockets
  /\ InitUpload

NextTransport == Connect \/ Disconnect \/ SocketOpens \/ SocketCloses \/ TimerFires

SpecTransport == InitTransportInUse /\ [][NextTransport]_vars

(***************************************************************************)
(* The transport on its own (part_022 lines 220-311): connect() and        *)
(* disconnect() are public and may be called at any time, as the tests of  *)
(* part_004 call them.  A socket that connect() replaces is not closed and *)
(* a socket that disconnect() closes delivers its close event later; both  *)
(* keep the handlers of lines 235-254, which act on the transport.         *)
(***************************************************************************)
\* the calls of connect() by the owner of the transport
MaxConnects == 2

Pending(sockets) == sockets.connecting + sockets.open + sockets.closing

\* transport.connect()
ConnectCalled ==
  /\ wsLog.created < MaxConnects
  /\ transport' = connect(transport)
  /\ discarded' = Discard(discarded, transport.socket)
  /\ wsLog' = [wsLog EXCEPT !.created = wsLog.created + 1, !.disconnected = FALSE]
  /\ UNCHANGED options
  /\ UNCHANGED <<engineVars, uploadVars>>

\* transport.disconnect()
DisconnectCalled ==
  /\ transport' = disconnect(transport)
  /\ wsLog' = [wsLog EXCEPT !.disconnected = TRUE, !.atDisconnect = Doing(transport)]
  /\ UNCHANGED <<options, discarded>>
  /\ UNCHANGED <<engineVars, uploadVars>>

\* the open event of a socket that a later connect() replaced
DiscardedOpens ==
  /\ discarded.connecting > 0
  /\ discarded' = [discarded EXCEPT !.connecting = discarded.connecting - 1, !.open = discarded.open + 1]
  /\ transport' = onopen(transport)
  /\ wsLog' = [wsLog EXCEPT !.opens = wsLog.opens + 1, !.beforeOpen = wsLog.sinceOpen, !.sinceOpen = 0]
  /\ UNCHANGED options
  /\ UNCHANGED <<engineVars, uploadVars>>

\* the close event of a socket that a later connect() replaced
DiscardedCloses ==
  /\ \E readyState \in DOMAIN discarded :
       /\ discarded[readyState] > 0
       /\ discarded' = [discarded EXCEPT ![readyState] = discarded[readyState] - 1]
  /\ \E jitter \in Jitters : transport' = onclose(transport, options, jitter)
  /\ UNCHANGED <<options, wsLog>>
  /\ UNCHANGED <<engineVars, uploadVars>>

\* the options of the transports of this session: reconnecting or not, with
\* three attempts
OptionsOfSockets == {Options(a, Num(100), Num(1000), Num(3)) : a \in BOOLEAN}

InitSockets ==
  /\ InitEngine
  /\ session = "sockets"
  /\ transport = NewTransport
  /\ options \in OptionsOfSockets
  /\ wsLog = NoLog
  /\ discarded = NoSockets
  /\ InitUpload

NextSockets == ConnectCalled \/ DisconnectCalled \/ SocketOpens \/ SocketCloses \/ DiscardedOpens \/ DiscardedCloses \/ TimerFires

SpecSockets == InitSockets /\ [][NextSockets]_vars

(***************************************************************************)
(* Operations that arrive where the tree holds no Range are stored raw     *)
(* (lines 77-80 and 186-188) and applied by the render (lines 453-460).    *)
(* The session of such placeholders: a Range at top level or nested, an    *)
(* else branch in its place, operations for its path, an unrelated slot.   *)
(***************************************************************************)
PlaceholderUpdates ==
  { O(<< <<"s", RootStatics>>, <<"0", KeyedRange(<<Apple, Banana>>, LiStatics)>>, <<"1", Str("t")>> >>),
    O(<< <<"s", RootStatics>>, <<"0", O(<< <<"s", UlStatics>>, <<"0", KeyedRange(<<Apple, Banana>>, LiStatics)>> >>)>>, <<"1", Str("t")>> >>),
    At0(ElseWithSlot),
    At0(Ops(<<AppendCherry>>)),
    At0(Ops(<<Op1("r", Str("1"))>>)),
    At0(At0(Ops(<<AppendCherry>>))),
    O(<< <<"1", Str("u")>> >>) }

\* the number of applyUpdate calls of a behaviour of this session
MaxPlaceholderCalls == 4

InitPlaceholders == InitEngine /\ InitTransport /\ InitUpload /\ session = "placeholders"

\* renderer.applyUpdate(update)
ApplyPlaceholderUpdate(update) ==
  /\ calls < MaxPlaceholderCalls
  /\ ReturnedToThis(update, applyUpdate(update, Engine))

NextPlaceholders == \/ \E update \in PlaceholderUpdates : ApplyPlaceholderUpdate(update)
                    \/ Reset

SpecPlaceholders == InitPlaceholders /\ [][NextPlaceholders]_vars

(***************************************************************************)
(* UploadHandler (upload/upload-handler.ts).  A File is its name and its   *)
(* size; an entry id is the number the server gave the entry.  The parts   *)
(* of an async method between two awaits are one step each: the call runs  *)
(* to the first await, and the settling of the awaited promise runs the    *)
(* method to its next await or to its end.                                 *)
(***************************************************************************)
UploadNames == {"avatar", "docs"}

FileA == [name |-> "a.txt", size |-> 3]

FileB == [name |-> "b.txt", size |-> 1]

\* the files of a change event of a file input
FileLists == {<<FileA>>, <<FileA, FileB>>}

\* options.chunkSize, line 40, in the unit of the file sizes
chunkSize == 2

\* no error, no external upload
NoError == ""

NoMeta == "none"

\* the uploaders registered by the constructor, line 46
uploaders == {"s3"}

\* UploadEntryInfo, types.ts lines 19-26: the kinds of entry a server answers
InfoKinds == {"auto", "manual", "invalid", "external", "missing"}

InfoOf(kind, id, fileName) ==
  [entry_id |-> id,
   client_name |-> IF kind = "missing" THEN "x.txt" ELSE fileName,
   valid |-> kind # "invalid",
   error |-> IF kind = "invalid" THEN "File too large" ELSE NoError,
   auto_upload |-> kind \in {"auto", "external"},
   external |-> IF kind = "external" THEN "s3" ELSE NoMeta]

\* UploadStartResponse, types.ts lines 42-45: the answers of a server that
\* has given out the ids up to base
Responses(uploadName, base) ==
  {[upload_name |-> uploadName, entries |-> <<InfoOf(k, base + 1, "a.txt")>>] : k \in InfoKinds}
  \cup {[upload_name |-> uploadName, entries |-> <<InfoOf(k[1], base + 1, "a.txt"), InfoOf(k[2], base + 2, "b.txt")>>] :
          k \in {"auto", "manual"} \X {"auto", "manual", "invalid", "external"}}

\* lines 89-93
FileMetadata(files) == [i \in DOMAIN files |-> [name |-> files[i].name, size |-> files[i].size]]

\* the fields of the handler that a call changes
Handler == [entries |-> entries, objects |-> objects, tasks |-> tasks, outbox |-> outbox, timers |-> timers]

\* cleanupEntries, lines 350-351: one more timer for the upload name
cleanupEntries(u, uploadName) ==
  [u EXCEPT !.timers = Put(u.timers, uploadName, IF HasEntry(u.timers, uploadName) THEN u.timers[uploadName] + 1 ELSE 1)]

\* the catch blocks, lines 205-213 and 276-284
Failed(u, id, errorMsg) ==
  cleanupEntries([u EXCEPT !.objects[id].error = errorMsg, !.tasks[id].at = "ended"], u.objects[id].uploadName)

\* lines 260-275 and 190-204
Completed(u, id, done) ==
  cleanupEntries([u EXCEPT !.objects[id].done = done,
                           !.tasks[id].at = "ended",
                           !.outbox = Append(u.outbox, [action |-> "upload_complete", upload_name |-> u.objects[id].uploadName, entry_ids |-> <<id>>])],
                 u.objects[id].uploadName)

\* lines 227-237: the loop test, the check of the abort signal, the read
NextChunk(u, id) ==
  IF u.tasks[id].offset < u.objects[id].file.size
  THEN IF u.objects[id].abortController = "aborted" THEN Failed(u, id, "Upload cancelled")
       ELSE [u EXCEPT !.tasks[id].at = "reading"]
  ELSE Completed(u, id, TRUE)

\* lines 219-237: uploadChunked up to its first await
uploadChunked(u, id) ==
  NextChunk([u EXCEPT !.objects[id].abortController = "live",
                      !.tasks = Put(u.tasks, id, [kind |-> "chunked", offset |-> 0, at |-> "reading"])], id)

\* Math.round((offset / file.size) * 100)
Progress(offset, size) == (200 * offset + size) \div (2 * size)

\* a loop that takes every chunk for the rest of the file
ChunkSentToTheEnd(u, id) ==
  LET offset == u.tasks[id].offset
      size == u.objects[id].file.size
  IN NextChunk([u EXCEPT !.outbox = Append(u.outbox, [action |-> "upload_chunk", entry_id |-> id, offset |-> offset, total |-> size]),
                         !.tasks[id].offset = size,
                         !.objects[id].bytesUploaded = size,
                         !.objects[id].progress = Progress(size, size)], id)

\* lines 239-258 and the next turn of the loop: fileToBase64 has resolved
ChunkSent(u, id) ==
  LET offset == u.tasks[id].offset
      size == u.objects[id].file.size
      end == Min(offset + chunkSize, size)
  IN NextChunk([u EXCEPT !.outbox = Append(u.outbox, [action |-> "upload_chunk", entry_id |-> id, offset |-> offset, total |-> size]),
                         !.tasks[id].offset = end,
                         !.objects[id].bytesUploaded = end,
                         !.objects[id].progress = Progress(end, size)], id)

\* lines 177-188: uploadExternal up to its await
uploadExternal(u, id, meta) ==
  IF meta \notin uploaders
  THEN Failed([u EXCEPT !.tasks = Put(u.tasks, id, [kind |-> "external", offset |-> 0, at |-> "uploading"])], id, "Unknown uploader")
  ELSE [u EXCEPT !.tasks = Put(u.tasks, id, [kind |-> "external", offset |-> 0, at |-> "uploading"])]

\* lines 142-152
NewEntry(info, file, upload_name) ==
  [id |-> info.entry_id, file |-> file, uploadName |-> upload_name, progress |-> 0, bytesUploaded |-> 0,
   valid |-> info.valid, done |-> FALSE, error |-> info.error, external |-> info.external, abortController |-> "none"]

\* lines 154-170: the entry is stored and its upload started
StartEntry(u, info) ==
  IF ~info.valid THEN u
  ELSE IF info.external # NoMeta THEN uploadExternal(u, info.entry_id, info.external)
  ELSE uploadChunked(u, info.entry_id)

\* lines 124-127: the last file of a name is the one found
FileNamed(files, name) == files[CHOOSE i \in DOMAIN files : files[i].name = name /\ \A j \in DOMAIN files : files[j].name = name => j <= i]

RECURSIVE createEntries(_, _, _, _, _)
\* lines 132-171
createEntries(entryInfos, i, files, upload_name, u) ==
  IF i > Len(entryInfos) THEN u
  ELSE IF \A j \in DOMAIN files : files[j].name # entryInfos[i].client_name
       THEN createEntries(entryInfos, i + 1, files, upload_name, u)
       ELSE createEntries(entryInfos, i + 1, files, upload_name,
              StartEntry([u EXCEPT !.entries = u.entries \cup {entryInfos[i].entry_id},
                                   !.objects = Put(u.objects, entryInfos[i].entry_id,
                                                   NewEntry(entryInfos[i], FileNamed(files, entryInfos[i].client_name), upload_name))],
                         entryInfos[i]))

\* lines 108-172
handleUploadStartResponse(response, u) ==
  createEntries(response.entries, 1, pendingFiles[response.upload_name], response.upload_name, u)

\* lines 305-322
cancelUpload(entryId, u) ==
  [u EXCEPT !.objects[entryId].abortController = IF @ = "none" THEN "none" ELSE "aborted",
            !.outbox = Append(u.outbox, [action |-> "cancel_upload", entry_id |-> entryId]),
            !.entries = u.entries \ {entryId}]

\* lines 351-367: the entries the timer of an upload name removes
entriesToRemove(uploadName) ==
  {id \in entries : objects[id].uploadName = uploadName /\ (objects[id].done \/ objects[id].error # NoError)}

\* the handler after a call
HandlerBecomes(u) ==
  /\ entries' = u.entries
  /\ objects' = u.objects
  /\ tasks' = u.tasks
  /\ outbox' = u.outbox
  /\ timers' = u.timers

\* the upload_start messages sent so far
Starts == Cardinality({i \in DOMAIN outbox : outbox[i].action = "upload_start"})

\* the number of startUpload calls of a behaviour
MaxUploadStarts == 1

\* startUpload(uploadName, files), lines 84-103
StartUpload(uploadName, files) ==
  /\ Starts < MaxUploadStarts
  /\ pendingFiles' = Put(pendingFiles, uploadName, files)
  /\ outbox' = Append(outbox, [action |-> "upload_start", upload_name |-> uploadName, files |-> FileMetadata(files)])
  /\ UNCHANGED <<entries, objects, tasks, timers, received, triggered>>
  /\ UNCHANGED <<engineVars, transportVars>>

\* handleUploadStartResponse(response) for the response to a start message
HandleUploadStartResponse(response) ==
  /\ HasEntry(pendingFiles, response.upload_name)
  /\ pendingFiles' = [n \in (DOMAIN pendingFiles) \ {response.upload_name} |-> pendingFiles[n]]
  /\ HandlerBecomes(handleUploadStartResponse(response, Handler))
  /\ received' = received \o [i \in DOMAIN response.entries |-> [upload_name |-> response.upload_name, info |-> response.entries[i]]]
  /\ UNCHANGED triggered
  /\ UNCHANGED <<engineVars, transportVars>>

\* the FileReader of fileToBase64 (lines 373-385) has read the chunk
ChunkRead(id) ==
  /\ HasEntry(tasks, id)
  /\ tasks[id].kind = "chunked"
  /\ tasks[id].at = "reading"
  /\ HandlerBecomes(ChunkSent(Handler, id))
  /\ UNCHANGED <<pendingFiles, received, triggered>>
  /\ UNCHANGED <<engineVars, transportVars>>

\* the FileReader fails (reader.onerror, line 382): the await of line 237 throws
ChunkReadFails(id) ==
  /\ HasEntry(tasks, id)
  /\ tasks[id].kind = "chunked"
  /\ tasks[id].at = "reading"
  /\ HandlerBecomes(Failed(Handler, id, "read error"))
  /\ UNCHANGED <<pendingFiles, received, triggered>>
  /\ UNCHANGED <<engineVars, transportVars>>

\* the promise of uploader.upload (line 188) settles
ExternalSettles(id, fulfilled) ==
  /\ HasEntry(tasks, id)
  /\ tasks[id].kind = "external"
  /\ tasks[id].at = "uploading"
  /\ HandlerBecomes(IF fulfilled THEN Completed(Handler, id, objects[id].done) ELSE Failed(Handler, id, "Upload failed"))
  /\ UNCHANGED <<pendingFiles, received, triggered>>
  /\ UNCHANGED <<engineVars, transportVars>>

\* cancelUpload(entryId) for an entry the handler holds
CancelUpload(entryId) ==
  /\ entryId \in entries
  /\ HandlerBecomes(cancelUpload(entryId, Handler))
  /\ UNCHANGED <<pendingFiles, received, triggered>>
  /\ UNCHANGED <<engineVars, transportVars>>

ChunksSentFor(id) == {i \in DOMAIN outbox : outbox[i].action = "upload_chunk" /\ outbox[i].entry_id = id}

\* the bytes a server has received of entry id when it reports its progress:
\* the end of a chunk that was sent to it
Received(id) == {Min(outbox[i].offset + chunkSize, outbox[i].total) : i \in ChunksSentFor(id)}

\* handleProgressMessage(message), lines 290-300, for an upload_progress
\* message of the server (part_020 lines 264-265)
HandleProgressMessage(entry_id, bytes_recv) ==
  /\ entry_id \in entries
  /\ objects' = [objects EXCEPT ![entry_id].progress = Progress(bytes_recv, objects[entry_id].file.size),
                                ![entry_id].bytesUploaded = bytes_recv]
  /\ UNCHANGED <<pendingFiles, entries, tasks, outbox, timers, received, triggered>>
  /\ UNCHANGED <<engineVars, transportVars>>

\* a timer of cleanupEntries expires
CleanupTimerFires(uploadName) ==
  /\ HasEntry(timers, uploadName)
  /\ timers[uploadName] > 0
  /\ timers' = [timers EXCEPT ![uploadName] = @ - 1]
  /\ entries' = entries \ entriesToRemove(uploadName)
  /\ UNCHANGED <<pendingFiles, objects, tasks, outbox, received, triggered>>
  /\ UNCHANGED <<engineVars, transportVars>>

\* context.triggerPendingUploads(uploadName), event-delegation.ts line 256,
\* which is this.uploadHandler.triggerPendingUploads(uploadName) (part_020
\* lines 162-163): the class defines no such method, the call throws a
\* TypeError and no field of the handler changes
TriggerPendingUploads(uploadName) ==
  /\ triggered' = triggered \cup {id \in entries : objects[id].uploadName = uploadName}
  /\ UNCHANGED <<pendingFiles, entries, objects, tasks, outbox, timers, received>>
  /\ UNCHANGED <<engineVars, transportVars>>

InitUploads == InitEngine /\ InitTransport /\ InitUpload /\ session = "uploads"

NextUploads ==
  \/ \E uploadName \in UploadNames, files \in FileLists : StartUpload(uploadName, files)
  \/ \E uploadName \in UploadNames : \E response \in Responses(uploadName, Len(received)) : HandleUploadStartResponse(response)
  \/ \E id \in DOMAIN tasks : ChunkRead(id)
  \/ \E id \in DOMAIN tasks : ChunkReadFails(id)
  \/ \E id \in DOMAIN tasks, fulfilled \in BOOLEAN : ExternalSettles(id, fulfilled)
  \/ \E entryId \in entries : CancelUpload(entryId)
  \/ \E entry_id \in entries : \E bytes_recv \in Received(entry_id) : HandleProgressMessage(entry_id, bytes_recv)
  \/ \E uploadName \in UploadNames : CleanupTimerFires(uploadName)
  \/ \E uploadName \in UploadNames : TriggerPendingUploads(uploadName)

SpecUploads == InitUploads /\ [][NextUploads]_vars

(***************************************************************************)
(* Paths.  A path is the sequence of keys from the root to a node.         *)
(***************************************************************************)
RECURSIVE PathsOf(_)
\* the paths to the nodes below node that are reached through objects
PathsOf(node) ==
  IF IsPlainObject(node)
  THEN UNION {{<<k>>} \cup {<<k>> \o p : p \in PathsOf(node.f[k])} : k \in DOMAIN node.f}
  ELSE {}

RECURSIVE ValueAt(_, _)
ValueAt(node, path) ==
  IF path = <<>> THEN node
  ELSE IF IsPlainObject(node) THEN ValueAt(Get(node, Head(path)), Tail(path))
  ELSE Undefined

\* the update names the path P: it carries a value for it
Sets(update, P) == P \in PathsOf(update)

Applied == lastUpdate # NoUpdate /\ ~result.threw

(***************************************************************************)
(* C1: for every path P at any depth, if the stored value at P is a Range  *)
(* and the update sets P to an object that is not a Range, then after      *)
(* applyUpdate the stored value at P is exactly the incoming object: no d  *)
(* and no other field or item of the old Range is kept.                    *)
(***************************************************************************)
RangeToNonRangeAt(P) ==
  /\ isRangeNode(ValueAt(Obj(before.treeState), P))
  /\ Sets(lastUpdate, P)
  /\ IsPlainObject(ValueAt(lastUpdate, P))
  /\ ~isRangeNode(ValueAt(lastUpdate, P))

Atoms(html) == {html[i] : i \in DOMAIN html}

\* the strings of an array of strings (none for another value)
StringsOf(a) == IF IsArray(a) THEN {a.l[i].v : i \in {j \in DOMAIN a.l : IsString(a.l[j])}} ELSE {}

\* the slot texts of one item
SlotTexts(item) ==
  IF IsPlainObject(item)
  THEN {item.f[k].v : k \in {x \in DOMAIN item.f : IsNumericKey(x) /\ IsString(item.f[x])}}
  ELSE {}

\* the markup of the items of a Range: its statics and the texts of its items
ItemMarkup(range) ==
  StringsOf(Get(range, "s")) \cup UNION {SlotTexts(Get(range, "d").l[i]) : i \in DOMAIN Get(range, "d").l}

RECURSIVE AllStrings(_)
\* every string below v
AllStrings(v) ==
  CASE IsString(v) -> {v.v}
    [] IsArray(v) -> UNION {AllStrings(v.l[i]) : i \in DOMAIN v.l}
    [] IsPlainObject(v) -> UNION {AllStrings(v.f[k]) : k \in DOMAIN v.f}
    [] OTHER -> {}

RECURSIVE CarriesOps(_)
\* there is an array of differential operations in v
CarriesOps(v) ==
  \/ isDifferentialOps(v)
  \/ IsPlainObject(v) /\ \E k \in DOMAIN v.f : CarriesOps(v.f[k])
  \/ IsArray(v) /\ \E i \in DOMAIN v.l : CarriesOps(v.l[i])

\* a Fragment: an object with statics that is not a Range
IsFragment(node) == IsPlainObject(node) /\ IsArray(Get(node, "s")) /\ ~isRangeNode(node)

\* statics s leave a slot for key
HasSlot(s, key) == IsNumericKey(key) /\ ParseInt(key) < Len(s.l) - 1

\* every node above P in tree is a Fragment with a slot for the next key of P
Visible(tree, P) ==
  \A n \in 1..Len(P) : /\ IsFragment(ValueAt(tree, SubSeq(P, 1, n - 1)))
                       /\ HasSlot(Get(ValueAt(tree, SubSeq(P, 1, n - 1)), "s"), P[n])

\* the update replaces the Fragment at Q, which encloses P, with a Fragment
\* that has no slot towards P
EnclosingReplacedAt(P, Q) ==
  /\ IsFragment(ValueAt(Obj(before.treeState), Q))
  /\ Sets(lastUpdate, Q)
  /\ IsFragment(ValueAt(lastUpdate, Q))
  /\ ~HasSlot(Get(ValueAt(lastUpdate, Q), "s"), P[Len(Q) + 1])

ProperPrefixes(P) == {SubSeq(P, 1, n) : n \in 1..(Len(P) - 1)}

\* the update replaces the Range at P, or a Fragment that encloses it, at R,
\* with content that is tree content throughout
RangeGoneAt(P, R) ==
  /\ isRangeNode(ValueAt(Obj(before.treeState), P))
  /\ ~CarriesOps(ValueAt(lastUpdate, R))
  /\ \/ R = P /\ RangeToNonRangeAt(P)
     \/ R \in ProperPrefixes(P) /\ EnclosingReplacedAt(P, R)

(***************************************************************************)
(* C2: after an update replaces a Range at path P with non-Range content   *)
(* (tree content, no differential operations in it),                       *)
(* or replaces a Fragment that encloses the Range with a Fragment that has *)
(* no slot for it, the html of that applyUpdate contains no markup of an   *)
(* item of the old Range (but for text the new content itself carries),    *)
(* and contains the statics of the new content wherever the replaced       *)
(* position is rendered; at any nesting depth.                             *)
(***************************************************************************)
C2_ElseContentRendered ==
  Applied => \A P \in PathsOf(Obj(before.treeState)) : \A R \in {P} \cup ProperPrefixes(P) :
               RangeGoneAt(P, R) =>
                 /\ Atoms(result.html) \cap ItemMarkup(ValueAt(Obj(before.treeState), P)) \subseteq AllStrings(ValueAt(lastUpdate, R))
                 /\ Visible(Obj(treeState), R) => StringsOf(Get(ValueAt(lastUpdate, R), "s")) \subseteq Atoms(result.html)

\* a Range three levels down is gone with its enclosing Fragment, and the
\* new statics are in the html
C2_Witness ==
  /\ Applied
  /\ \E P \in PathsOf(Obj(before.treeState)) : \E R \in ProperPrefixes(P) :
       /\ Len(P) = 3
       /\ RangeGoneAt(P, R)
       /\ Len(Get(ValueAt(Obj(before.treeState), P), "d").l) > 0
       /\ Visible(Obj(treeState), R)
       /\ StringsOf(Get(ValueAt(lastUpdate, R), "s")) # {}
       /\ StringsOf(Get(ValueAt(lastUpdate, R), "s")) \subseteq Atoms(result.html)
       /\ ItemMarkup(ValueAt(Obj(before.treeState), P)) \cap Atoms(before.result.html) # {}
       /\ ItemMarkup(ValueAt(Obj(before.treeState), P)) \cap AllStrings(ValueAt(lastUpdate, R)) = {}

\* v supplies dynamics only for the node old whose statics are known: items
\* for a Range, slot values for a Fragment, and no s
DynamicsOnly(old, v) ==
  /\ IsPlainObject(v)
  /\ ~InKeys(v.f, "s")
  /\ ~CarriesOps(v)
  /\ IF isRangeNode(old) THEN IsArray(Get(v, "d"))
     ELSE DOMAIN v.f # {} /\ \A k \in DOMAIN v.f : IsNumericKey(k)

\* the update reaches P by merging: it replaces no node above P
MergedDownTo(P) ==
  \A Q \in ProperPrefixes(P) : IsPlainObject(ValueAt(Obj(before.treeState), Q)) /\ ~RangeToNonRangeAt(Q)

\* the statics at P are known and the update supplies only dynamics for P
DynamicsOnlyUpdateAt(P) ==
  /\ IsArray(Get(ValueAt(Obj(before.treeState), P), "s"))
  /\ Sets(lastUpdate, P)
  /\ DynamicsOnly(ValueAt(Obj(before.treeState), P), ValueAt(lastUpdate, P))
  /\ MergedDownTo(P)

\* the statics of node are in the html, if node has something to show
StaticsShown(node, html) ==
  (IsFragment(node) \/ (isRangeNode(node) /\ Len(Get(node, "d").l) > 0))
    => StringsOf(Get(node, "s")) \subseteq Atoms(html)

(***************************************************************************)
(* C3: for every path P whose statics are known, Fragment or Range, an     *)
(* update to P that supplies only dynamics and omits s keeps the stored    *)
(* statics at P, and the html at P shows those statics around the new      *)
(* dynamics.  The code does not keep them for a Range: an object with d    *)
(* and no s is not a Range for isRangeNode, so lines 135-145 replace the   *)
(* stored Range with it.                                                   *)
(***************************************************************************)
C3_StaticsKept ==
  Applied => \A P \in PathsOf(Obj(before.treeState)) :
               DynamicsOnlyUpdateAt(P) =>
                 /\ Get(ValueAt(Obj(treeState), P), "s") = Get(ValueAt(Obj(before.treeState), P), "s")
                 /\ Visible(Obj(treeState), P) => StaticsShown(ValueAt(Obj(treeState), P), result.html)

\* the part of C3 that the code keeps: the statics of a Fragment
C3_FragmentStaticsKept ==
  Applied => \A P \in PathsOf(Obj(before.treeState)) :
               (DynamicsOnlyUpdateAt(P) /\ IsFragment(ValueAt(Obj(before.treeState), P))) =>
                 /\ Get(ValueAt(Obj(treeState), P), "s") = Get(ValueAt(Obj(before.treeState), P), "s")
                 /\ Visible(Obj(treeState), P) => StaticsShown(ValueAt(Obj(treeState), P), result.html)

\* the latest two calls of applyUpdate had the same argument, nothing was
\* called in between, and both returned
SameUpdateTwice ==
  /\ Applied
  /\ before.lastUpdate = lastUpdate
  /\ ~before.result.threw

(***************************************************************************)
(* C4: for any reachable engine state and any update U, calling            *)
(* applyUpdate(U) twice in a row returns changed = false on the second     *)
(* call and the html of the first call.                                    *)
(***************************************************************************)
C4_SameUpdateTwice ==
  SameUpdateTwice => ~result.changed /\ result.html = before.result.html

\* there is a Range at node or below it
RECURSIVE HoldsRange(_)
HoldsRange(node) ==
  \/ isRangeNode(node)
  \/ IsPlainObject(node) /\ \E k \in DOMAIN node.f : HoldsRange(node.f[k])

\* the Fragment at P holds a Range in or below its slot k, and the update
\* gives P a Fragment that carries statics only
ElseBranchStaticsOnlyAt(P, k) ==
  /\ IsFragment(ValueAt(Obj(before.treeState), P))
  /\ IsNumericKey(k)
  /\ HoldsRange(Get(ValueAt(Obj(before.treeState), P), k))
  /\ Sets(lastUpdate, P)
  /\ IsFragment(ValueAt(lastUpdate, P))
  /\ DOMAIN SpreadOf(ValueAt(lastUpdate, P)) = {"s"}
  /\ MergedDownTo(P)

(***************************************************************************)
(* C5: when a Fragment at path P that holds a nested Range in one of its   *)
(* slots is updated with an else-branch Fragment that carries only new     *)
(* statics, the tree state at P afterwards has no d field and the slot     *)
(* that held the Range is undefined, also when the Range was several       *)
(* levels below P.  The code merges the two Fragments (lines 147-189), so  *)
(* the slot keeps the old Range.                                           *)
(***************************************************************************)
C5_NoOrphanedRange ==
  Applied => \A P \in PathsOf(Obj(before.treeState)) : \A k \in DOMAIN SpreadOf(ValueAt(Obj(before.treeState), P)) :
               ElseBranchStaticsOnlyAt(P, k) =>
                 /\ ~InKeys(SpreadOf(ValueAt(Obj(treeState), P)), "d")
                 /\ Get(ValueAt(Obj(treeState), P), k) = Undefined

Parent(P) == SubSeq(P, 1, Len(P) - 1)

\* the stored value at P is a Range and the update's value at P is a Range
RangeOnRangeAt(P) ==
  /\ isRangeNode(ValueAt(Obj(before.treeState), P))
  /\ Sets(lastUpdate, P)
  /\ isRangeNode(ValueAt(lastUpdate, P))

\* every field of old that new does not name is a field of now, unchanged
Kept(old, new, now) ==
  \A k \in DOMAIN SpreadOf(old) \ DOMAIN SpreadOf(new) : Get(now, k) = Get(old, k)

\* P holds the merge of the stored Range and the incoming one, and the
\* fields of P's parent that the update does not name are as they were
MergedAt(P) ==
  /\ isRangeNode(ValueAt(Obj(treeState), P))
  /\ Get(ValueAt(Obj(treeState), P), "d") = Get(ValueAt(lastUpdate, P), "d")
  /\ Get(ValueAt(Obj(treeState), P), "s") = Get(ValueAt(lastUpdate, P), "s")
  /\ Kept(ValueAt(Obj(before.treeState), P), ValueAt(lastUpdate, P), ValueAt(Obj(treeState), P))
  /\ Kept(ValueAt(Obj(before.treeState), Parent(P)), ValueAt(lastUpdate, Parent(P)), ValueAt(Obj(treeState), Parent(P)))

(***************************************************************************)
(* C6, as stated: when the stored value at path P is a Range and the       *)
(* update's value at P is also a Range, the two are merged: afterwards P   *)
(* is a Range whose d and s are the incoming ones, the fields of the       *)
(* stored Range that the update does not name are kept, and every sibling  *)
(* field of P's parent (that the update does not name) is unchanged.       *)
(***************************************************************************)
C6_RangesMergedAnywhere ==
  Applied => \A P \in PathsOf(Obj(before.treeState)) : RangeOnRangeAt(P) => MergedAt(P)

(***************************************************************************)
(* C6, amended: the same, provided the update replaces no node above P,    *)
(* that is, no node above P is a Range for which the update carries a      *)
(* non-Range.                                                              *)
(***************************************************************************)
C6_RangesMerged ==
  Applied => \A P \in PathsOf(Obj(before.treeState)) : (RangeOnRangeAt(P) /\ MergedDownTo(P)) => MergedAt(P)

\* a nested Range took the incoming d and s and kept its m, next to a sibling
C6_Witness ==
  /\ Applied
  /\ \E P \in PathsOf(Obj(before.treeState)) :
       /\ Len(P) >= 2
       /\ RangeOnRangeAt(P)
       /\ MergedDownTo(P)
       /\ Get(ValueAt(Obj(before.treeState), P), "d") # Get(ValueAt(lastUpdate, P), "d")
       /\ DOMAIN SpreadOf(ValueAt(Obj(before.treeState), P)) \ DOMAIN SpreadOf(ValueAt(lastUpdate, P)) # {}
       /\ DOMAIN SpreadOf(ValueAt(Obj(before.treeState), Parent(P))) \ DOMAIN SpreadOf(ValueAt(lastUpdate, Parent(P))) # {}
       /\ MergedAt(P)

(***************************************************************************)
(* C7: the contents, at every depth, of a snapshot that getTreeState()     *)
(* returned are never changed by a later applyUpdate, also when the update *)
(* applies differential operations to a Range that the snapshot contains,  *)
(* at top level or nested.                                                 *)
(***************************************************************************)
C7_SnapshotNeverChanged ==
  [][calls' # calls => snapshot'.tree = snapshot.tree]_vars

\* operations were applied to a nested Range of the tree that a snapshot
\* holds: the engine's Range changed, the snapshot's did not
C7_Witness ==
  /\ Applied
  /\ snapshot.held
  /\ snapshot.tree = before.treeState
  /\ \E P \in PathsOf(Obj(snapshot.tree)) :
       /\ Len(P) = 2
       /\ isRangeNode(ValueAt(Obj(snapshot.tree), P))
       /\ isDifferentialOps(ValueAt(lastUpdate, P))
       /\ isRangeNode(ValueAt(Obj(treeState), P))
       /\ ValueAt(Obj(treeState), P) # ValueAt(Obj(snapshot.tree), P)

(***************************************************************************)
(* C8: applyUpdate never throws for malformed protocol input in any        *)
(* reachable state (a Range holding a null item, an "a" op whose item is   *)
(* null, an "o" op whose second element is not a list, an op tuple with    *)
(* missing arguments): it returns {html, changed}.  The code reads a slot  *)
(* of a null item (line 527) and iterates the second element of an "o" op  *)
(* (line 338) unguarded: both are TypeErrors.                              *)
(***************************************************************************)
C8_NeverThrows ==
  lastUpdate # NoUpdate => ~result.threw

(***************************************************************************)
(* Appends.  What the spec expects of a list of "a" operations.            *)
(***************************************************************************)
\* ops is an array of "a" operations whose items are objects
AppendsOnly(ops) ==
  /\ isDifferentialOps(ops)
  /\ \A i \in DOMAIN ops.l : /\ IsArray(ops.l[i])
                             /\ Len(ops.l[i].l) >= 2
                             /\ ops.l[i].l[1] = Str("a")
                             /\ \A j \in DOMAIN AsItems(ops.l[i].l[2]) : IsPlainObject(AsItems(ops.l[i].l[2])[j])

RECURSIVE Appended(_, _)
\* the items the operations from the n-th on append, in the order given
Appended(ops, n) ==
  IF n > Len(ops.l) THEN <<>> ELSE AsItems(ops.l[n].l[2]) \o Appended(ops, n + 1)

\* the statics in effect after the operations: those of the last operation
\* that supplies statics, otherwise s
StaticsInEffect(s, ops) ==
  IF \E i \in DOMAIN ops.l : Truthy(OpArg(ops.l[i], 2))
  THEN OpArg(ops.l[LastOf({i \in DOMAIN ops.l : Truthy(OpArg(ops.l[i], 2))})], 2)
  ELSE s

RECURSIVE Interleaved(_, _, _)
\* item's slot texts between the statics, from the i-th static on
Interleaved(item, statics, i) ==
  IF i > Len(statics.l) THEN <<>>
  ELSE Text(statics.l[i]) \o (IF i < Len(statics.l) /\ IsString(Get(item, IntToString(i - 1))) THEN Text(Get(item, IntToString(i - 1))) ELSE <<>>)
       \o Interleaved(item, statics, i + 1)

RECURSIVE ItemsHtml(_, _, _)
\* the markup of the items from the n-th on, in list order
ItemsHtml(items, statics, n) ==
  IF n > Len(items) THEN <<>> ELSE Interleaved(items[n], statics, 1) \o ItemsHtml(items, statics, n + 1)

IsInfix(sub, html) == \E i \in 0..(Len(html) - Len(sub)) : SubSeq(html, i + 1, i + Len(sub)) = sub

\* the stored value at P is a Range and the update appends to it
AppendAt(P) ==
  /\ isRangeNode(ValueAt(Obj(before.treeState), P))
  /\ Sets(lastUpdate, P)
  /\ AppendsOnly(ValueAt(lastUpdate, P))
  /\ MergedDownTo(P)

\* the items of the Range at P after the appends
ItemsAfterAppend(P) ==
  Get(ValueAt(Obj(before.treeState), P), "d").l \o Appended(ValueAt(lastUpdate, P), 1)

(***************************************************************************)
(* C9: after items are appended to a Range by "a" operations (one item or  *)
(* a list of items per op), the Range holds its items in list order with   *)
(* the appended items last, in the order given, and the html renders them  *)
(* in that order, each item between the Range's statics: the new statics   *)
(* if an op supplied them, otherwise the statics in effect before.         *)
(***************************************************************************)
C9_AppendedItemsRendered ==
  Applied => \A P \in PathsOf(Obj(before.treeState)) :
               AppendAt(P) =>
                 /\ Get(ValueAt(Obj(treeState), P), "d") = Arr(ItemsAfterAppend(P))
                 /\ Visible(Obj(treeState), P) =>
                      IsInfix(ItemsHtml(ItemsAfterAppend(P), StaticsInEffect(Get(ValueAt(Obj(before.treeState), P), "s"), ValueAt(lastUpdate, P)), 1), result.html)

\* two operations appended three items to a nested Range, the second with
\* new statics, and the html shows all its items between the new statics
C9_Witness ==
  /\ Applied
  /\ \E P \in PathsOf(Obj(before.treeState)) :
       /\ Len(P) = 2
       /\ AppendAt(P)
       /\ Len(ValueAt(lastUpdate, P).l) = 2
       /\ Len(Appended(ValueAt(lastUpdate, P), 1)) = 3
       /\ Len(Get(ValueAt(Obj(before.treeState), P), "d").l) > 0
       /\ StaticsInEffect(Get(ValueAt(Obj(before.treeState), P), "s"), ValueAt(lastUpdate, P)) # Get(ValueAt(Obj(before.treeState), P), "s")
       /\ Visible(Obj(treeState), P)
       /\ IsInfix(ItemsHtml(ItemsAfterAppend(P), BStatics, 1), result.html)

(***************************************************************************)
(* Reorders.  What the spec expects of an "o" operation.                   *)
(***************************************************************************)
RECURSIVE PathString(_)
\* the state path of P
PathString(P) == IF Len(P) = 0 THEN "" ELSE JoinPath(PathString(Parent(P)), P[Len(P)])

\* ops is a list of "a" operations followed by one "o" operation whose
\* second element is a list of strings
ReorderLast(ops) ==
  /\ isDifferentialOps(ops)
  /\ IsArray(ops.l[Len(ops.l)])
  /\ Len(ops.l[Len(ops.l)].l) = 2
  /\ ops.l[Len(ops.l)].l[1] = Str("o")
  /\ IsArray(ops.l[Len(ops.l)].l[2])
  /\ \A j \in DOMAIN ops.l[Len(ops.l)].l[2].l : IsString(ops.l[Len(ops.l)].l[2].l[j])
  /\ Len(ops.l) > 1 => AppendsOnly(Arr(SubSeq(ops.l, 1, Len(ops.l) - 1)))

\* the ordered key list K of the "o" operation, as strings
OrderedKeys(ops) == [j \in DOMAIN ops.l[Len(ops.l)].l[2].l |-> ops.l[Len(ops.l)].l[2].l[j].v]

\* the items the "o" operation finds: the stored ones and those appended
\* by the operations before it
ItemsBeforeReorder(P) ==
  Get(ValueAt(Obj(before.treeState), P), "d").l
    \o (IF Len(ValueAt(lastUpdate, P).l) > 1 THEN Appended(Arr(SubSeq(ValueAt(lastUpdate, P).l, 1, Len(ValueAt(lastUpdate, P).l) - 1)), 1) ELSE <<>>)

\* the idKey registered for P when the "o" operation runs: the stored
\* Range's m.idKey, otherwise the registry's entry
IdKeyAt(P) ==
  IF IsString(Get(Get(ValueAt(Obj(before.treeState), P), "m"), "idKey")) THEN Get(Get(ValueAt(Obj(before.treeState), P), "m"), "idKey")
  ELSE IF HasEntry(before.rangeIdKeys, PathString(P)) THEN before.rangeIdKeys[PathString(P)]
  ELSE Undefined

\* the key of an item: the string in its idKey field, "" if it has none
KeyOf(item, idKey) == IF IsString(Get(item, idKey.v)) THEN Get(item, idKey.v).v ELSE ""

\* the stored value at P is a Range with a registered idKey and the update
\* reorders it
ReorderAt(P) ==
  /\ isRangeNode(ValueAt(Obj(before.treeState), P))
  /\ Sets(lastUpdate, P)
  /\ ReorderLast(ValueAt(lastUpdate, P))
  /\ IsString(IdKeyAt(P))
  /\ \A i \in DOMAIN ItemsBeforeReorder(P) : IsPlainObject(ItemsBeforeReorder(P)[i])
  /\ MergedDownTo(P)

RECURSIVE InOrderOf(_, _, _, _)
\* the items whose key occurs in K, arranged in the order of K: for each key
\* of K, from the n-th on, at its first occurrence, the items that carry it
InOrderOf(items, K, n, idKey) ==
  IF n > Len(K) THEN <<>>
  ELSE (IF K[n] # "" /\ \A m \in 1..(n - 1) : K[m] # K[n]
        THEN SelectSeq(items, LAMBDA item : KeyOf(item, idKey) = K[n])
        ELSE <<>>)
       \o InOrderOf(items, K, n + 1, idKey)

RECURSIVE WalkOf(_, _, _, _)
\* for each key of K, from the n-th on, the last item that carries it, if any
WalkOf(items, K, n, idKey) ==
  IF n > Len(K) THEN <<>>
  ELSE (IF K[n] # "" /\ \E i \in DOMAIN items : KeyOf(items[i], idKey) = K[n]
        THEN <<items[LastOf({i \in DOMAIN items : KeyOf(items[i], idKey) = K[n]})]>>
        ELSE <<>>)
       \o WalkOf(items, K, n + 1, idKey)

\* no two items carry the same key and no key occurs twice in K
DistinctKeys(items, K, idKey) ==
  /\ \A i, j \in DOMAIN items : (i # j /\ KeyOf(items[i], idKey) # "") => KeyOf(items[i], idKey) # KeyOf(items[j], idKey)
  /\ \A m, n \in DOMAIN K : m # n => K[m] # K[n]

\* the texts of the items whose key is not in K
TextsDropped(items, K, idKey) ==
  UNION {SlotTexts(items[i]) : i \in {j \in DOMAIN items : \A n \in DOMAIN K : KeyOf(items[j], idKey) # K[n]}}

\* P holds the list expected and the html shows it, with nothing of the
\* items whose key is not in K
ReorderedTo(P, expected) ==
  /\ Get(ValueAt(Obj(treeState), P), "d") = Arr(expected)
  /\ Visible(Obj(treeState), P) =>
       /\ IsInfix(ItemsHtml(expected, Get(ValueAt(Obj(treeState), P), "s"), 1), result.html)
       /\ Atoms(result.html) \cap TextsDropped(ItemsBeforeReorder(P), OrderedKeys(ValueAt(lastUpdate, P)), IdKeyAt(P)) = {}

(***************************************************************************)
(* C10, as stated: with an idKey registered for the path, after an "o"     *)
(* operation with ordered key list K the items list consists of exactly    *)
(* the previous items whose key occurs in K, arranged in the order of K;   *)
(* an item whose key is not in K is removed from the items and from the    *)
(* html, whatever its position before.                                     *)
(***************************************************************************)
C10_ReorderedExactly ==
  Applied => \A P \in PathsOf(Obj(before.treeState)) :
               ReorderAt(P) =>
                 ReorderedTo(P, InOrderOf(ItemsBeforeReorder(P), OrderedKeys(ValueAt(lastUpdate, P)), 1, IdKeyAt(P)))

(***************************************************************************)
(* C10, amended: the items list is what a walk of K gives: for each key of *)
(* K in order, the last previous item that carries it, if any; if no two   *)
(* items carry the same key and K names no key twice, these are exactly    *)
(* the previous items whose key occurs in K, in the order of K.  An item   *)
(* whose key is not in K is removed from the items and from the html.      *)
(***************************************************************************)
C10_Reordered ==
  Applied => \A P \in PathsOf(Obj(before.treeState)) :
               ReorderAt(P) =>
                 /\ ReorderedTo(P, WalkOf(ItemsBeforeReorder(P), OrderedKeys(ValueAt(lastUpdate, P)), 1, IdKeyAt(P)))
                 /\ DistinctKeys(ItemsBeforeReorder(P), OrderedKeys(ValueAt(lastUpdate, P)), IdKeyAt(P)) =>
                      ReorderedTo(P, InOrderOf(ItemsBeforeReorder(P), OrderedKeys(ValueAt(lastUpdate, P)), 1, IdKeyAt(P)))

\* a reorder of distinct keys moved the last item first and dropped an item
\* that was not the last one; the html shows the new order
C10_Witness ==
  /\ Applied
  /\ \E P \in PathsOf(Obj(before.treeState)) :
       /\ ReorderAt(P)
       /\ DistinctKeys(ItemsBeforeReorder(P), OrderedKeys(ValueAt(lastUpdate, P)), IdKeyAt(P))
       /\ Len(ItemsBeforeReorder(P)) = 3
       /\ Len(Get(ValueAt(Obj(treeState), P), "d").l) = 2
       /\ Get(ValueAt(Obj(treeState), P), "d").l[1] = ItemsBeforeReorder(P)[3]
       /\ Get(ValueAt(Obj(treeState), P), "d").l[2] = ItemsBeforeReorder(P)[2]
       /\ Visible(Obj(treeState), P)
       /\ TextsDropped(ItemsBeforeReorder(P), OrderedKeys(ValueAt(lastUpdate, P)), IdKeyAt(P)) # {}
       /\ IsInfix(ItemsHtml(Get(ValueAt(Obj(treeState), P), "d").l, Get(ValueAt(Obj(treeState), P), "s"), 1), result.html)

(***************************************************************************)
(* Locate-by-key operations.  What the spec expects of "r", "u" and "i".   *)
(***************************************************************************)
\* ops is a list of "a" operations followed by one operation code whose key
\* argument is a string
KeyedOpLast(ops, code) ==
  /\ isDifferentialOps(ops)
  /\ IsArray(ops.l[Len(ops.l)])
  /\ Len(ops.l[Len(ops.l)].l) >= 2
  /\ ops.l[Len(ops.l)].l[1] = Str(code)
  /\ IsString(ops.l[Len(ops.l)].l[2])
  /\ Len(ops.l) > 1 => AppendsOnly(Arr(SubSeq(ops.l, 1, Len(ops.l) - 1)))

\* the key argument of the last operation
KeyArgument(ops) == ops.l[Len(ops.l)].l[2]

\* the stored value at P is a Range with a registered idKey and the update
\* removes by key from it
RemoveOpAt(P) ==
  /\ isRangeNode(ValueAt(Obj(before.treeState), P))
  /\ Sets(lastUpdate, P)
  /\ KeyedOpLast(ValueAt(lastUpdate, P), "r")
  /\ Len(ValueAt(lastUpdate, P).l[Len(ValueAt(lastUpdate, P).l)].l) = 2
  /\ IsString(IdKeyAt(P))
  /\ \A i \in DOMAIN ItemsBeforeReorder(P) : IsPlainObject(ItemsBeforeReorder(P)[i])
  /\ MergedDownTo(P)

\* the positions of the items whose key field equals k
Carriers(items, k, idKey) == {i \in DOMAIN items : Get(items[i], idKey.v) = k}

\* after is items without one of the items that carry k, or items itself
\* when none carries k
OneRemoved(items, after, k, idKey) ==
  IF Carriers(items, k, idKey) = {} THEN after = items
  ELSE \E i \in Carriers(items, k, idKey) : after = RemoveAt(items, i - 1)

(***************************************************************************)
(* C11: with an idKey registered for the path, an "r" operation with key k *)
(* removes exactly one item, one whose key field equals k, and leaves all  *)
(* other items and their relative order unchanged; when no item has key k  *)
(* the items list is unchanged.                                            *)
(***************************************************************************)
C11_RemovesTheKeyedItem ==
  Applied => \A P \in PathsOf(Obj(before.treeState)) :
               RemoveOpAt(P) =>
                 /\ IsArray(Get(ValueAt(Obj(treeState), P), "d"))
                 /\ OneRemoved(ItemsBeforeReorder(P), Get(ValueAt(Obj(treeState), P), "d").l, KeyArgument(ValueAt(lastUpdate, P)), IdKeyAt(P))

\* the second of two or more items was removed by its key
C11_Witness ==
  /\ Applied
  /\ \E P \in PathsOf(Obj(before.treeState)) :
       /\ RemoveOpAt(P)
       /\ Len(ItemsBeforeReorder(P)) >= 2
       /\ Carriers(ItemsBeforeReorder(P), KeyArgument(ValueAt(lastUpdate, P)), IdKeyAt(P)) = {2}
       /\ Get(ValueAt(Obj(treeState), P), "d").l = RemoveAt(ItemsBeforeReorder(P), 1)

\* an "r" operation whose key no item carries left the items as they were
C11_WitnessNoMatch ==
  /\ Applied
  /\ \E P \in PathsOf(Obj(before.treeState)) :
       /\ RemoveOpAt(P)
       /\ Len(ItemsBeforeReorder(P)) >= 1
       /\ Carriers(ItemsBeforeReorder(P), KeyArgument(ValueAt(lastUpdate, P)), IdKeyAt(P)) = {}
       /\ Get(ValueAt(Obj(treeState), P), "d").l = ItemsBeforeReorder(P)

\* ops is one locate-by-key operation: "i", "r", "u" or "o"
LocateByKeyOp(ops) ==
  /\ isDifferentialOps(ops)
  /\ Len(ops.l) = 1
  /\ Len(ops.l[1].l) >= 2
  /\ ops.l[1].l[1] \in {Str("i"), Str("r"), Str("u"), Str("o")}

\* the stored value at P is a Range, no idKey is registered for P, and the
\* update applies one locate-by-key operation to it
UnkeyedOpAt(P) ==
  /\ isRangeNode(ValueAt(Obj(before.treeState), P))
  /\ Sets(lastUpdate, P)
  /\ LocateByKeyOp(ValueAt(lastUpdate, P))
  /\ IdKeyAt(P) = Undefined
  /\ MergedDownTo(P)

(***************************************************************************)
(* C12: while no idKey is registered for path P, every locate-by-key       *)
(* operation (i, r, u, and o's filtering), with any key argument, is a     *)
(* no-op on the Range at P: its items list is the same after the operation *)
(* as before.  The code empties the list on "o": no item has a key, so the *)
(* Map of lines 329-336 stays empty and lines 345-346 replace the items    *)
(* with nothing.                                                           *)
(***************************************************************************)
C12_UnkeyedOpsAreNoOps ==
  Applied => \A P \in PathsOf(Obj(before.treeState)) :
               UnkeyedOpAt(P) => Get(ValueAt(Obj(treeState), P), "d") = Get(ValueAt(Obj(before.treeState), P), "d")

(***************************************************************************)
(* Per-item statics.  What the spec expects of a Range with a staticsMap.  *)
(***************************************************************************)
\* the statics the spec gives an item: the entry of the map its _sk selects,
\* otherwise the shared statics
StaticsFor(item, statics, staticsMap) ==
  IF IsString(Get(item, "_sk")) /\ InKeys(SpreadOf(staticsMap), Get(item, "_sk").v)
  THEN staticsMap.f[Get(item, "_sk").v]
  ELSE statics

RECURSIVE MappedItemsHtml(_, _, _, _)
\* the markup of the items from the n-th on, each between its own statics
MappedItemsHtml(items, statics, staticsMap, n) ==
  IF n > Len(items) THEN <<>>
  ELSE Interleaved(items[n], StaticsFor(items[n], statics, staticsMap), 1) \o MappedItemsHtml(items, statics, staticsMap, n + 1)

\* the value at P is a Range with items that carries a staticsMap
MappedRangeAt(tree, P) ==
  /\ isRangeNode(ValueAt(tree, P))
  /\ IsPlainObject(Get(ValueAt(tree, P), "sm"))
  /\ Len(Get(ValueAt(tree, P), "d").l) > 0
  /\ \A i \in DOMAIN Get(ValueAt(tree, P), "d").l : IsPlainObject(Get(ValueAt(tree, P), "d").l[i])

\* the items of node whose _sk selects an entry of its staticsMap
Selecting(node) ==
  {i \in DOMAIN Get(node, "d").l : StaticsFor(Get(node, "d").l[i], Get(node, "s"), Get(node, "sm")) # Get(node, "s")}

(***************************************************************************)
(* C13: in a Range that carries a staticsMap, each item whose _sk selects  *)
(* an entry of the map is rendered with that entry's statics and every     *)
(* other item (no _sk, or _sk absent from the map) with the shared         *)
(* statics; two items with different _sk are rendered with their           *)
(* respective entries.                                                     *)
(***************************************************************************)
C13_ItemsRenderedWithOwnStatics ==
  Applied => \A P \in PathsOf(Obj(treeState)) :
               (MappedRangeAt(Obj(treeState), P) /\ Visible(Obj(treeState), P)) =>
                 IsInfix(MappedItemsHtml(Get(ValueAt(Obj(treeState), P), "d").l, Get(ValueAt(Obj(treeState), P), "s"),
                                         Get(ValueAt(Obj(treeState), P), "sm"), 1), result.html)

\* a rendered Range holds two items with different entries of the map, an
\* item with no _sk and an item whose _sk is not in the map
C13_Witness ==
  /\ Applied
  /\ \E P \in PathsOf(Obj(treeState)) :
       /\ MappedRangeAt(Obj(treeState), P)
       /\ Visible(Obj(treeState), P)
       /\ \E i, j \in Selecting(ValueAt(Obj(treeState), P)) :
            Get(Get(ValueAt(Obj(treeState), P), "d").l[i], "_sk") # Get(Get(ValueAt(Obj(treeState), P), "d").l[j], "_sk")
       /\ \E i \in DOMAIN Get(ValueAt(Obj(treeState), P), "d").l :
            /\ i \notin Selecting(ValueAt(Obj(treeState), P))
            /\ Get(Get(ValueAt(Obj(treeState), P), "d").l[i], "_sk") = Undefined
       /\ \E i \in DOMAIN Get(ValueAt(Obj(treeState), P), "d").l :
            /\ i \notin Selecting(ValueAt(Obj(treeState), P))
            /\ IsString(Get(Get(ValueAt(Obj(treeState), P), "d").l[i], "_sk"))
       /\ {"<i>", "<u>", "<li>"} \subseteq Atoms(result.html)

(***************************************************************************)
(* The key registry.                                                       *)
(***************************************************************************)
\* the stored Range at P names no idKey itself, its path was registered by
\* an earlier update, and the update removes by a key that an item carries
RemoveByRegisteredKeyAt(P) ==
  /\ RemoveOpAt(P)
  /\ ~IsString(Get(Get(ValueAt(Obj(before.treeState), P), "m"), "idKey"))
  /\ HasEntry(before.rangeIdKeys, PathString(P))
  /\ Carriers(ItemsBeforeReorder(P), KeyArgument(ValueAt(lastUpdate, P)), IdKeyAt(P)) # {}

\* every path registered stays registered over an applyUpdate
RegistryKept == [][calls' # calls => \A p \in DOMAIN rangeIdKeys : HasEntry(rangeIdKeys', p)]_vars

\* a Range without m.idKey at a registered path loses the item a remove names
RegisteredKeyUsed ==
  Applied => \A P \in PathsOf(Obj(before.treeState)) :
               RemoveByRegisteredKeyAt(P) =>
                 Len(Get(ValueAt(Obj(treeState), P), "d").l) = Len(ItemsBeforeReorder(P)) - 1

(***************************************************************************)
(* C14: once an idKey has been registered for path P (from a Range's       *)
(* m.idKey or from the metadata of an "a" op), the key registry holds an   *)
(* entry for P after every later applyUpdate until reset() is called, so a *)
(* later Range at P that carries no m.idKey is still subject to            *)
(* locate-by-key operations.                                               *)
(***************************************************************************)
C14_RegistryPersists == RegistryKept /\ []RegisteredKeyUsed

\* a Range that names no idKey, at a path registered by the metadata of an
\* earlier "a" operation, lost an item to a remove by key
C14_Witness ==
  /\ Applied
  /\ \E P \in PathsOf(Obj(before.treeState)) :
       /\ RemoveByRegisteredKeyAt(P)
       /\ Len(ValueAt(lastUpdate, P).l) = 1
       /\ Len(Get(ValueAt(Obj(treeState), P), "d").l) = Len(ItemsBeforeReorder(P)) - 1

(***************************************************************************)
(* Reset and instances.                                                    *)
(***************************************************************************)
\* what a caller of this instance gets from it
ThisProduct == [treeState |-> getTreeState(treeState), html |-> result.html, changed |-> result.changed, threw |-> result.threw]

\* what a caller of the other instance gets from it
OtherProduct == [treeState |-> getTreeState(other.treeState), html |-> other.result.html, changed |-> other.result.changed, threw |-> other.result.threw]

(***************************************************************************)
(* C15: after reset() the engine behaves like a freshly constructed one:   *)
(* tree state, range index and key registry are empty, and any following   *)
(* sequence of updates returns the same {html, changed} results and the    *)
(* same tree states as the same sequence on a new instance.                *)
(***************************************************************************)
C15_ResetIsLikeNew ==
  paired => /\ treeState = other.treeState
            /\ rangeState = other.rangeState
            /\ rangeIdKeys = other.rangeIdKeys
            /\ lastUpdate # NoUpdate => ThisProduct = OtherProduct

\* an instance that had served updates was reset; two updates later, the
\* first of which registered a key, it holds a Range and shows what the
\* instance constructed at its reset shows
C15_Witness ==
  /\ paired
  /\ calls > other.calls
  /\ other.calls = 2
  /\ before.rangeIdKeys # EmptyMap
  /\ isRangeNode(Get(Obj(treeState), "0"))
  /\ Len(result.html) > 3
  /\ ThisProduct = OtherProduct

(***************************************************************************)
(* C16: two engine instances share no mutable state: no sequence of        *)
(* applyUpdate or reset calls on one instance changes the html, the        *)
(* changed flag or the tree state produced by another instance, even when  *)
(* both instances were given the same update objects.                      *)
(***************************************************************************)
C16_InstancesIndependent ==
  [][/\ actor' = "this" => OtherProduct' = OtherProduct
     /\ actor' = "other" => ThisProduct' = ThisProduct]_vars

\* both instances hold the Range of the same update object, and operations
\* applied to one of them changed its items and not the other's
C16_Witness ==
  /\ actor = "this"
  /\ isDifferentialOps(Get(lastUpdate, "0"))
  /\ isRangeNode(Get(Obj(before.treeState), "0"))
  /\ Get(Obj(before.treeState), "0") = Get(Obj(other.treeState), "0")
  /\ isRangeNode(Get(Obj(treeState), "0"))
  /\ Get(Obj(treeState), "0") # Get(Obj(other.treeState), "0")

(***************************************************************************)
(* Reconnects.  What is expected of WebSocketTransport.                    *)
(***************************************************************************)
\* maxReconnectAttempts, reconnectDelay and maxReconnectDelay in effect
AttemptLimit == OrDefault(options.maxReconnectAttempts, 10)

BaseDelay == OrDefault(options.reconnectDelay, 1000)

DelayCap == OrDefault(options.maxReconnectDelay, 16000)

\* this step delivers a close event
ClosesNow == transport.socket # "closed" /\ transport'.socket = "closed"

\* this step delivers an open event
OpensNow == transport.socket = "connecting" /\ transport'.socket = "open"

\* this step performs a reconnect: onReconnectAttempt is called and a new
\* WebSocket is made
ReconnectsNow == transport'.attemptCalls # transport.attemptCalls \/ wsLog'.created # wsLog.created

\* the delays the n-th consecutive attempt may have
DelaysOf(n) == {Min(BaseDelay * Pow2(n - 1) + jitter, DelayCap) : jitter \in Jitters}

NoReconnectWhileDisconnected ==
  [][(options.autoReconnect /\ wsLog.disconnected) => (~ReconnectsNow /\ ~transport'.reconnectTimer.set)]_vars

NoTimerWhileDisconnected == (options.autoReconnect /\ wsLog.disconnected) => ~transport.reconnectTimer.set

(***************************************************************************)
(* C17: once disconnect() has been called on a WebSocketTransport with     *)
(* autoReconnect enabled, and until connect() is called again, no          *)
(* reconnect is scheduled or performed and onReconnectAttempt is never     *)
(* invoked, whether the socket was open, still connecting, or a reconnect  *)
(* timer was pending at the time of the call.                              *)
(***************************************************************************)
C17_NoReconnectAfterDisconnect == NoReconnectWhileDisconnected /\ []NoTimerWhileDisconnected

\* disconnect() was called while a reconnect timer was pending, after an
\* attempt had been made already; nothing is scheduled
C17_Witness ==
  /\ options.autoReconnect
  /\ wsLog.disconnected
  /\ wsLog.atDisconnect = "timer"
  /\ transport.attemptCalls > 0
  /\ ~transport.reconnectTimer.set

\* disconnect() was called on an open socket and its close event has come
C17_WitnessOpen ==
  /\ options.autoReconnect
  /\ wsLog.disconnected
  /\ wsLog.atDisconnect = "open"
  /\ transport.socket = "closed"
  /\ ~transport.reconnectTimer.set

\* disconnect() was called on a connecting socket and its close event has come
C17_WitnessConnecting ==
  /\ options.autoReconnect
  /\ wsLog.disconnected
  /\ wsLog.atDisconnect = "connecting"
  /\ transport.socket = "closed"
  /\ ~transport.reconnectTimer.set

CounterWithinLimit == AttemptLimit > 0 => transport.reconnectAttempts <= AttemptLimit

GivesUpAtLimit ==
  [][(AttemptLimit > 0 /\ options.autoReconnect /\ ~wsLog.disconnected /\ wsLog.sinceOpen >= AttemptLimit /\ ClosesNow)
       => (~transport'.reconnectTimer.set /\ transport'.failedCalls = transport.failedCalls + 1)]_vars

(***************************************************************************)
(* C18: with maxReconnectAttempts = N > 0 (default 10), after N            *)
(* consecutive reconnect attempts without a successful open the next close *)
(* schedules no further reconnect and calls onReconnectFailed; the         *)
(* reconnect-attempt counter never exceeds N.                              *)
(***************************************************************************)
C18_StopsAtMaxAttempts == []CounterWithinLimit /\ GivesUpAtLimit

\* with the default limit, the socket of the tenth attempt in a row closed:
\* onReconnectFailed was called and no timer is pending
C18_Witness ==
  /\ options.maxReconnectAttempts = Undefined
  /\ wsLog.sinceOpen = 10
  /\ transport.reconnectAttempts = 10
  /\ transport.socket = "closed"
  /\ transport.failedCalls = 1
  /\ ~transport.reconnectTimer.set

OpenResetsCounter == [][OpensNow => transport'.reconnectAttempts = 0]_vars

FirstAttemptAfterOpen ==
  [][(wsLog.opens > 0 /\ wsLog.sinceOpen = 0 /\ transport'.attemptCalls # transport.attemptCalls)
       => (transport'.lastAttempt.attempt = 1 /\ transport'.lastAttempt.delay \in DelaysOf(1))]_vars

(***************************************************************************)
(* C19: a successful open resets the reconnect-attempt counter to 0, so    *)
(* the first reconnect after any successful connection is reported to      *)
(* onReconnectAttempt as attempt 1 and uses the base delay again, however  *)
(* many attempts preceded that connection.                                 *)
(***************************************************************************)
C19_OpenResetsAttempts == OpenResetsCounter /\ FirstAttemptAfterOpen

\* the connection that opened had taken three attempts; the reconnect after
\* it was reported as attempt 1
C19_Witness ==
  /\ wsLog.opens >= 1
  /\ wsLog.beforeOpen = 3
  /\ wsLog.sinceOpen = 1
  /\ transport.lastAttempt.attempt = 1
  /\ transport.lastAttempt.delay \in DelaysOf(1)

DelayOfEachAttempt ==
  [][transport'.attemptCalls # transport.attemptCalls
       => (transport'.lastAttempt.delay \in DelaysOf(wsLog'.sinceOpen) /\ transport'.lastAttempt.delay <= DelayCap)]_vars

DelayOfTimer ==
  transport.reconnectTimer.set
    => (transport.reconnectTimer.delay \in DelaysOf(wsLog.sinceOpen + 1) /\ transport.reconnectTimer.delay <= DelayCap)

(***************************************************************************)
(* C20: the delay of the n-th consecutive reconnect attempt is             *)
(* min(reconnectDelay * 2^(n-1) + jitter, maxReconnectDelay) with          *)
(* 0 <= jitter < 1000 ms: it doubles with each failed attempt until capped *)
(* and never exceeds maxReconnectDelay.                                    *)
(***************************************************************************)
C20_ExponentialBackoff == DelayOfEachAttempt /\ []DelayOfTimer

\* the fourth attempt in a row waited 8 times the base delay plus jitter,
\* under the cap
C20_Witness ==
  /\ options.reconnectDelay = Undefined
  /\ options.maxReconnectDelay = Undefined
  /\ wsLog.sinceOpen = 4
  /\ transport.lastAttempt = [attempt |-> 4, delay |-> 8500]

\* the fifth attempt in a row waited the maximum delay, not 16 times the base
C20_WitnessCapped ==
  /\ options.reconnectDelay = Num(100)
  /\ options.maxReconnectDelay = Num(1000)
  /\ wsLog.sinceOpen = 5
  /\ transport.lastAttempt = [attempt |-> 5, delay |-> 1000]

(***************************************************************************)
(* The range index.  What is expected of rangeState.                       *)
(***************************************************************************)
\* the keys a path of the tree is made of
PathKeys == {KeyOrder[i] : i \in DOMAIN KeyOrder}

\* the paths of the tree whose state path is the string p
PathsNamed(tree, p) == {P \in PathsOf(tree) : (\A n \in DOMAIN P : P[n] \in PathKeys) /\ PathString(P) = p}

\* the tree holds, at the path that p names, a Range with the items and the
\* statics of the entry
InSync(tree, p, entry) ==
  \E P \in PathsNamed(tree, p) :
     /\ isRangeNode(ValueAt(tree, P))
     /\ Get(ValueAt(tree, P), "d") = entry.items
     /\ Get(ValueAt(tree, P), "s") = entry.statics

(***************************************************************************)
(* C22: after every applyUpdate the range index is in sync with the tree:  *)
(* for each path P that has a range-index entry, the tree holds a Range at *)
(* P whose d and s are the entry's items and statics; no entry remains for *)
(* a path where the tree no longer holds a Range.  The code never deletes  *)
(* an entry of rangeState (only reset() empties it, lines 100-104), so the *)
(* entry of a Range that an update replaced stays behind.                  *)
(***************************************************************************)
C22_RangeIndexInSync ==
  Applied => \A p \in DOMAIN rangeState : InSync(Obj(treeState), p, rangeState[p])

\* the part of C22 that the code keeps: the entry of a path where the tree
\* holds a Range that the latest render visited
C22_VisitedRangesInSync ==
  Applied => \A p \in DOMAIN rangeState :
               (\E P \in PathsNamed(Obj(treeState), p) : isRangeNode(ValueAt(Obj(treeState), P)) /\ Visible(Obj(treeState), P))
                 => InSync(Obj(treeState), p, rangeState[p])

(***************************************************************************)
(* The changed flag.  What a caller that patches the DOM relies on.        *)
(***************************************************************************)
\* the latest applyUpdate returned, and so did the applyUpdate before it,
\* with no reset() in between
ReturnedTwice == Applied /\ before.lastUpdate # NoUpdate /\ ~before.result.threw

(***************************************************************************)
(* C23: whenever applyUpdate returns changed = false, the html it returns  *)
(* is identical to the html returned by the previous applyUpdate call on   *)
(* the same instance.                                                      *)
(***************************************************************************)
C23_UnchangedMeansSameHtml ==
  (ReturnedTwice /\ ~result.changed) => result.html = before.result.html

(***************************************************************************)
(* Replaced Ranges.  An item that is in the tree no more.                  *)
(***************************************************************************)
\* the texts of the items of the sessions
ItemTexts == {"Apple", "Banana", "Cherry", "Damson", "Elder", "Fig", "Grape", "Hazel", "Iris", "Berry"}

\* when the latest applyUpdate was called the tree held nothing of the item
\* with text x, and the update did not send it
GoneAndNotSent(x) == x \notin AllStrings(Obj(before.treeState)) /\ x \notin AllStrings(lastUpdate)

(***************************************************************************)
(* C24: once a Range at path P has been replaced by a non-Range value, no  *)
(* item of the replaced Range appears in the html or in the tree state     *)
(* produced by any later update, unless a later update sends that item     *)
(* again; operations arriving at P afterwards do not bring the old items   *)
(* back.  As a step property: the replacement leaves nothing of the items  *)
(* in the tree (C1), and an item that is not in the tree and not in the    *)
(* update is not in the tree or the html after the update.  The code       *)
(* keeps the items of the replaced Range in rangeState (C22) and applies   *)
(* operations stored as a placeholder at P to them (lines 558-563).        *)
(***************************************************************************)
C24_ReplacedItemsStayGone ==
  Applied => \A x \in ItemTexts :
               GoneAndNotSent(x) => x \notin AllStrings(Obj(treeState)) /\ x \notin Atoms(result.html)

(***************************************************************************)
(* Placeholders.  Operations stored raw in the tree and applied by the     *)
(* render.                                                                 *)
(***************************************************************************)
\* an object whose keys are all numeric: its values are rendered in order
IsDynamicsOnly(node) ==
  IsPlainObject(node) /\ ~IsArray(Get(node, "s")) /\ DOMAIN node.f # {} /\ \A k \in DOMAIN node.f : IsNumericKey(k)

\* the render walk reaches P: every node above P is a Fragment with a slot
\* for the next key of P, or an object of dynamics only
Walked(tree, P) ==
  \A n \in 1..Len(P) : \/ /\ IsFragment(ValueAt(tree, SubSeq(P, 1, n - 1)))
                          /\ HasSlot(Get(ValueAt(tree, SubSeq(P, 1, n - 1)), "s"), P[n])
                       \/ /\ n > 1
                          /\ IsDynamicsOnly(ValueAt(tree, SubSeq(P, 1, n - 1)))

\* the update brought operations for P, where the tree held no Range but the
\* range index had an entry, and the render reached them
PlaceholderAppliedAt(P) ==
  /\ isDifferentialOps(ValueAt(lastUpdate, P))
  /\ ~existingIsRange(ValueAt(Obj(before.treeState), P))
  /\ HasEntry(before.rangeState, PathString(P))
  /\ Walked(Obj(treeState), P)

\* P holds a Range built from the items and statics of the index, and the
\* items are the mutated ones
RangeOfIndexAt(P) ==
  /\ isRangeNode(ValueAt(Obj(treeState), P))
  /\ Get(ValueAt(Obj(treeState), P), "d") = rangeState[PathString(P)].items
  /\ Get(ValueAt(Obj(treeState), P), "s") = rangeState[PathString(P)].statics
  /\ AppendsOnly(ValueAt(lastUpdate, P)) =>
       Get(ValueAt(Obj(treeState), P), "d") = Arr(before.rangeState[PathString(P)].items.l \o Appended(ValueAt(lastUpdate, P), 1))

(***************************************************************************)
(* C25: after differential operations that were stored as a raw            *)
(* placeholder at path P are applied (a range index exists for P), the     *)
(* tree node at path P, at top level or at any nesting depth, is a Range   *)
(* built from the mutated items and the indexed statics, so that           *)
(* getTreeState() navigated to P shows the mutation and later renders do   *)
(* not find the operations there again.  The code assigns the Range to     *)
(* treeState[statePath] (line 678), the root's property named by the whole *)
(* path string: for a nested P the placeholder stays where it is.          *)
(***************************************************************************)
C25_PlaceholderBecomesRange ==
  Applied => \A P \in PathsOf(lastUpdate) : PlaceholderAppliedAt(P) => RangeOfIndexAt(P)

\* the part of C25 that the code keeps: a placeholder at top level
C25_TopLevelPlaceholderBecomesRange ==
  Applied => \A P \in PathsOf(lastUpdate) : (Len(P) = 1 /\ PlaceholderAppliedAt(P)) => RangeOfIndexAt(P)

(***************************************************************************)
(* The render walk and the tree.                                           *)
(***************************************************************************)
\* the engine as the latest applyUpdate found it
EngineBefore == [treeState |-> before.treeState, rangeState |-> before.rangeState, rangeIdKeys |-> before.rangeIdKeys, writes |-> {}]

\* the tree after the latest update was merged into the previous tree state,
\* lines 56-94, before the render of line 96
MergedTree == updateEntries(lastUpdate.f, ObjectKeys(lastUpdate.f), 1, EngineBefore, FALSE).e.treeState

\* the Range that lines 678-682 build from the index entry
RangeOfEntry(entry) == O(<< <<"d", entry.items>>, <<"s", entry.statics>>, <<"sm", entry.staticsMap>> >>)

\* the merged tree holds a placeholder at the path that p names, the range
\* index had an entry for p, and the root's property p is the Range of the
\* entry as it is now
PlaceholderWrittenAt(p) ==
  /\ HasEntry(before.rangeState, p)
  /\ HasEntry(rangeState, p)
  /\ \E P \in PathsNamed(Obj(MergedTree), p) : isDifferentialOps(ValueAt(Obj(MergedTree), P))
  /\ treeState[p] = RangeOfEntry(rangeState[p])

HasTopLevelOps(update) == \E k \in DOMAIN update.f : isDifferentialOps(update.f[k])

\* JSON.stringify of a tree state
Serialised(tree) == Stringify(Obj(tree))

(***************************************************************************)
(* C27: applyUpdate returns changed = true if and only if the update       *)
(* carries a differential-operations array at a top-level key, or the      *)
(* serialised tree state after the call differs from the serialised tree   *)
(* state before the call; operations at a top-level key yield changed =    *)
(* true even when they alter nothing.  In the code the flag is decided by  *)
(* the merge (lines 81 and 89-92); a render that applies a placeholder     *)
(* left below the top level changes the tree state after that (line 678).  *)
(***************************************************************************)
C27_ChangedIffOpsOrTreeDiffers ==
  Applied => (result.changed <=> (HasTopLevelOps(lastUpdate) \/ Serialised(treeState) # Serialised(before.treeState)))

\* the part of C27 that the code keeps: the flag tells whether the update
\* carries operations at a top-level key or the merge changed the tree
C27_ChangedIffOpsOrMergeDiffers ==
  Applied => (result.changed <=> (HasTopLevelOps(lastUpdate) \/ Serialised(MergedTree) # Serialised(before.treeState)))

RECURSIVE WithValueAt(_, _, _)
\* node with the value at path P replaced by v
WithValueAt(node, P, v) ==
  IF P = <<>> THEN v
  ELSE Obj([k \in DOMAIN node.f |-> IF k = Head(P) THEN WithValueAt(node.f[k], Tail(P), v) ELSE node.f[k]])

\* the engine after the latest update was merged, before the render
MergedEngine == updateEntries(lastUpdate.f, ObjectKeys(lastUpdate.f), 1, EngineBefore, FALSE).e

\* the update carries operations for P, where the stored value is not a Range
OpsForNonRangeAt(P) ==
  /\ isDifferentialOps(ValueAt(lastUpdate, P))
  /\ ~existingIsRange(ValueAt(Obj(before.treeState), P))

\* the html of the tree with nothing in the slot at P
HtmlWithout(P) == reconstructFromTree(WithValueAt(Obj(treeState), P, Str("")), "", MergedEngine).h

(***************************************************************************)
(* C28: when an update carries a differential-operations array at a key    *)
(* whose stored value is not a Range, the raw array is stored as the value *)
(* at that key, and if no range index exists for that path the slot        *)
(* renders as the empty string while the other slots render unchanged:     *)
(* the html is that of the same tree with nothing in the slot.             *)
(***************************************************************************)
C28_PlaceholderStoredAndEmpty ==
  Applied => \A P \in PathsOf(lastUpdate) :
               OpsForNonRangeAt(P) =>
                 /\ ValueAt(Obj(MergedTree), P) = ValueAt(lastUpdate, P)
                 /\ ~HasEntry(before.rangeState, PathString(P)) =>
                      /\ ValueAt(Obj(treeState), P) = ValueAt(lastUpdate, P)
                      /\ result.html = HtmlWithout(P)

\* operations arrived for a slot that held a Fragment and had no index: they
\* are in the tree, the slot shows nothing and the other slot shows its text
C28_Witness ==
  /\ Applied
  /\ OpsForNonRangeAt(<<"0">>)
  /\ IsFragment(Get(Obj(before.treeState), "0"))
  /\ ~HasEntry(before.rangeState, "0")
  /\ treeState["0"] = lastUpdate.f["0"]
  /\ result.html = <<"<div>", "|", "t", "</div>">>
  /\ "<ul>" \in Atoms(before.result.html)

\* the same below the top level
C28_WitnessNested ==
  /\ Applied
  /\ OpsForNonRangeAt(<<"0", "0">>)
  /\ ~HasEntry(before.rangeState, "0.0")
  /\ ValueAt(Obj(treeState), <<"0", "0">>) = ValueAt(lastUpdate, <<"0", "0">>)
  /\ Len(result.html) > 0

(***************************************************************************)
(* Partial updates.  The paths an update does not name.                    *)
(***************************************************************************)
\* the update carries no value for Q, it merges into every node above Q for
\* which it carries one, and it replaces no Range above Q by a non-Range
NotNamed(Q) ==
  /\ ~Sets(lastUpdate, Q)
  /\ \A R \in ProperPrefixes(Q) : Sets(lastUpdate, R) => IsPlainObject(ValueAt(lastUpdate, R))
  /\ \A R \in ProperPrefixes(Q) : ~RangeToNonRangeAt(R)

(***************************************************************************)
(* C29: a partial update leaves the stored value of every path it does not *)
(* name unchanged, at every depth: a Fragment's statics and its other      *)
(* slots survive an update that sets only one of its slots (the only       *)
(* exception being the fields of a Range that is replaced by a non-Range). *)
(* The merge keeps them; the render of the same call may assign a root     *)
(* property that the update does not name (line 678, see C25).             *)
(***************************************************************************)
C29_UnnamedPathsKept ==
  Applied => \A Q \in PathsOf(Obj(before.treeState)) :
               NotNamed(Q) => ValueAt(Obj(treeState), Q) = ValueAt(Obj(before.treeState), Q)

\* the part of C29 that the code keeps: the merge of lines 56-94 leaves the
\* value of every path that the update does not name unchanged
C29_MergeKeepsUnnamedPaths ==
  Applied => \A Q \in PathsOf(Obj(before.treeState)) :
               NotNamed(Q) => ValueAt(Obj(MergedTree), Q) = ValueAt(Obj(before.treeState), Q)

(***************************************************************************)
(* C30: applyUpdate never changes the update object handed to it, nor any  *)
(* object nested in it, neither during that call nor during a later call:  *)
(* every update the caller still holds reads as it did when it was sent,   *)
(* also after operations were applied to a Range that the update brought.  *)
(***************************************************************************)
C30_UpdatesNeverMutated ==
  \A h \in sent : h.now = h.sent

\* an earlier update brought a Range, top-level or nested, that the tree held
\* as sent, and the latest call applied operations to it: the engine's Range
\* changed
C30_Witness ==
  /\ Applied
  /\ \E h \in sent : \E P \in PathsOf(h.sent) :
       /\ h.sent # lastUpdate
       /\ isRangeNode(ValueAt(h.sent, P))
       /\ ValueAt(Obj(before.treeState), P) = ValueAt(h.sent, P)
       /\ isDifferentialOps(ValueAt(lastUpdate, P))
       /\ isRangeNode(ValueAt(Obj(treeState), P))
       /\ ValueAt(Obj(treeState), P) # ValueAt(h.sent, P)

\* the same for a Range nested in the update
C30_WitnessNested ==
  /\ Applied
  /\ \E h \in sent : \E P \in PathsOf(h.sent) :
       /\ Len(P) = 2
       /\ h.sent # lastUpdate
       /\ isRangeNode(ValueAt(h.sent, P))
       /\ ValueAt(Obj(before.treeState), P) = ValueAt(h.sent, P)
       /\ isDifferentialOps(ValueAt(lastUpdate, P))
       /\ ValueAt(Obj(treeState), P) # ValueAt(h.sent, P)

(***************************************************************************)
(* C21: for a valid, non-external upload entry the auto_upload flag of the *)
(* server decides when chunks are sent: with auto_upload=true the chunked  *)
(* upload is started by handleUploadStartResponse itself; with             *)
(* auto_upload=false no upload_chunk message is sent for the entry, and    *)
(* its chunked upload is not started, until triggerPendingUploads is       *)
(* called with its upload name.                                            *)
(***************************************************************************)
\* the entry info the server sent for an entry
InfoOfEntry(id) == received[id].info

\* a valid, non-external entry for which a file was found
ChunkedEntry(id) == InfoOfEntry(id).valid /\ InfoOfEntry(id).external = NoMeta

ChunkedUploadStarted(id) == HasEntry(tasks, id) /\ tasks[id].kind = "chunked"


\* the first half of C21 alone
C21_AutoUploadStartsAtOnce ==
  \A id \in DOMAIN objects : ChunkedEntry(id) /\ InfoOfEntry(id).auto_upload => ChunkedUploadStarted(id)

C21_AutoUploadDecides ==
  \A id \in DOMAIN objects : ChunkedEntry(id) =>
    /\ InfoOfEntry(id).auto_upload => ChunkedUploadStarted(id)
    /\ ~InfoOfEntry(id).auto_upload /\ id \notin triggered =>
         /\ ~ChunkedUploadStarted(id)
         /\ ChunksSentFor(id) = {}

(***************************************************************************)
(* Inserts.  What the spec expects of an "i" operation.                    *)
(***************************************************************************)
\* the last operation of the update at P
LastOp(P) == ValueAt(lastUpdate, P).l[Len(ValueAt(lastUpdate, P).l)]

\* the stored value at P is a Range with a registered idKey and the last
\* operation of the update for P has the code and three elements
KeyedOpAt(P, code) ==
  /\ isRangeNode(ValueAt(Obj(before.treeState), P))
  /\ Sets(lastUpdate, P)
  /\ KeyedOpLast(ValueAt(lastUpdate, P), code)
  /\ Len(LastOp(P).l) = 3
  /\ IsString(IdKeyAt(P))
  /\ \A i \in DOMAIN ItemsBeforeReorder(P) : IsPlainObject(ItemsBeforeReorder(P)[i])
  /\ MergedDownTo(P)

\* the item or items an "i" operation gives, in the order given
GivenItems(op) == IF IsArray(op.l[3]) THEN op.l[3].l ELSE <<op.l[3]>>

\* after is items with more right after an item that carries k, or items
\* itself when none carries k
InsertedAfter(items, after, k, idKey, more) ==
  IF Carriers(items, k, idKey) = {} THEN after = items
  ELSE \E i \in Carriers(items, k, idKey) : after = SubSeq(items, 1, i) \o more \o SubSeq(items, i + 1, Len(items))

(***************************************************************************)
(* C31: with an idKey registered for the path, an "i" operation with       *)
(* anchor key k inserts the given item or items, in the given order,       *)
(* immediately after the item whose key equals k and leaves all other      *)
(* items and their order unchanged; when no item has key k the items list  *)
(* is unchanged.                                                           *)
(***************************************************************************)
C31_InsertsAfterAnchor ==
  Applied => \A P \in PathsOf(Obj(before.treeState)) :
               KeyedOpAt(P, "i") =>
                 /\ IsArray(Get(ValueAt(Obj(treeState), P), "d"))
                 /\ InsertedAfter(ItemsBeforeReorder(P), Get(ValueAt(Obj(treeState), P), "d").l,
                                  KeyArgument(ValueAt(lastUpdate, P)), IdKeyAt(P), GivenItems(LastOp(P)))

\* a list of two items was inserted after the first of three items, between
\* it and the others
C31_Witness ==
  /\ Applied
  /\ \E P \in PathsOf(Obj(before.treeState)) :
       /\ KeyedOpAt(P, "i")
       /\ Len(ItemsBeforeReorder(P)) = 3
       /\ Len(GivenItems(LastOp(P))) = 2
       /\ Carriers(ItemsBeforeReorder(P), KeyArgument(ValueAt(lastUpdate, P)), IdKeyAt(P)) = {1}
       /\ Get(ValueAt(Obj(treeState), P), "d").l =
            <<ItemsBeforeReorder(P)[1]>> \o GivenItems(LastOp(P)) \o SubSeq(ItemsBeforeReorder(P), 2, 3)

\* one item was inserted after the last item
C31_WitnessOne ==
  /\ Applied
  /\ \E P \in PathsOf(Obj(before.treeState)) :
       /\ KeyedOpAt(P, "i")
       /\ ~IsArray(LastOp(P).l[3])
       /\ Carriers(ItemsBeforeReorder(P), KeyArgument(ValueAt(lastUpdate, P)), IdKeyAt(P)) = {Len(ItemsBeforeReorder(P))}
       /\ Get(ValueAt(Obj(treeState), P), "d").l = ItemsBeforeReorder(P) \o <<LastOp(P).l[3]>>

\* an "i" operation whose anchor no item carries left the items as they were
C31_WitnessNoMatch ==
  /\ Applied
  /\ \E P \in PathsOf(Obj(before.treeState)) :
       /\ KeyedOpAt(P, "i")
       /\ Len(ItemsBeforeReorder(P)) >= 2
       /\ Carriers(ItemsBeforeReorder(P), KeyArgument(ValueAt(lastUpdate, P)), IdKeyAt(P)) = {}
       /\ Get(ValueAt(Obj(treeState), P), "d").l = ItemsBeforeReorder(P)

(***************************************************************************)
(* Updates of an item.  What the spec expects of a "u" operation.          *)
(***************************************************************************)
\* the changes mapping of a "u" operation
ChangesOf(op) == op.l[3]

\* item with exactly the fields named in changes replaced by the values
\* given, its other fields kept
FieldsReplaced(item, changed, changes) ==
  /\ IsPlainObject(changed)
  /\ DOMAIN changed.f = (DOMAIN item.f) \cup (DOMAIN changes.f)
  /\ \A f \in DOMAIN changes.f : changed.f[f] = changes.f[f]
  /\ \A f \in (DOMAIN item.f) \ (DOMAIN changes.f) : changed.f[f] = item.f[f]

\* after is items with the fields of one item that carries k replaced, every
\* item at its position
OneUpdated(items, after, k, idKey, changes) ==
  \E i \in Carriers(items, k, idKey) :
    /\ Len(after) = Len(items)
    /\ FieldsReplaced(items[i], after[i], changes)
    /\ \A j \in DOMAIN items : j # i => after[j] = items[j]

(***************************************************************************)
(* C32: with an idKey registered for the path, a "u" operation with key k  *)
(* and a changes mapping replaces, in the one item whose key equals k,     *)
(* exactly the top-level fields named in the changes, by the values given  *)
(* (a nested Range or Fragment value is replaced, not merged into), and    *)
(* keeps that item's other fields; the position of the item, the number of *)
(* items and all other items are unchanged.                                *)
(***************************************************************************)
C32_UpdateReplacesNamedFields ==
  Applied => \A P \in PathsOf(Obj(before.treeState)) :
               (/\ KeyedOpAt(P, "u")
                /\ IsPlainObject(ChangesOf(LastOp(P)))
                /\ Carriers(ItemsBeforeReorder(P), KeyArgument(ValueAt(lastUpdate, P)), IdKeyAt(P)) # {}) =>
                 /\ IsArray(Get(ValueAt(Obj(treeState), P), "d"))
                 /\ OneUpdated(ItemsBeforeReorder(P), Get(ValueAt(Obj(treeState), P), "d").l,
                               KeyArgument(ValueAt(lastUpdate, P)), IdKeyAt(P), ChangesOf(LastOp(P)))

\* the Fragment in a field of the second item was replaced by the value
\* given, which lacks the statics the Fragment had; the item's other fields
\* and the first item are as before
C32_Witness ==
  /\ Applied
  /\ \E P \in PathsOf(Obj(before.treeState)) :
       /\ KeyedOpAt(P, "u")
       /\ IsPlainObject(ChangesOf(LastOp(P)))
       /\ Carriers(ItemsBeforeReorder(P), KeyArgument(ValueAt(lastUpdate, P)), IdKeyAt(P)) = {2}
       /\ \E f \in DOMAIN ChangesOf(LastOp(P)).f :
            /\ IsPlainObject(Get(ItemsBeforeReorder(P)[2], f))
            /\ IsPlainObject(ChangesOf(LastOp(P)).f[f])
            /\ DOMAIN Get(ItemsBeforeReorder(P)[2], f).f \ DOMAIN ChangesOf(LastOp(P)).f[f].f # {}
            /\ Get(Get(ValueAt(Obj(treeState), P), "d").l[2], f) = ChangesOf(LastOp(P)).f[f]
       /\ DOMAIN ItemsBeforeReorder(P)[2].f \ DOMAIN ChangesOf(LastOp(P)).f # {}
       /\ Get(ValueAt(Obj(treeState), P), "d").l[1] = ItemsBeforeReorder(P)[1]

\* a scalar field of the second of two items was replaced
C32_WitnessScalar ==
  /\ Applied
  /\ \E P \in PathsOf(Obj(before.treeState)) :
       /\ Len(P) = 1
       /\ KeyedOpAt(P, "u")
       /\ Carriers(ItemsBeforeReorder(P), KeyArgument(ValueAt(lastUpdate, P)), IdKeyAt(P)) = {2}
       /\ Get(ValueAt(Obj(treeState), P), "d").l[2] # ItemsBeforeReorder(P)[2]
       /\ Get(Get(ValueAt(Obj(treeState), P), "d").l[2], "0") = Get(ChangesOf(LastOp(P)), "0")

(***************************************************************************)
(* Reorders add nothing.  The "o" case of the merge (lines 326-348) and of *)
(* the render (lines 644-666).                                             *)
(***************************************************************************)
\* how often x occurs in the list
Occurrences(list, x) == Cardinality({i \in DOMAIN list : list[i] = x})

\* the stored value at P is a Range and the update for P ends with an "o"
\* operation: the merge applies it
MergeReorderAt(P) ==
  /\ isRangeNode(ValueAt(Obj(before.treeState), P))
  /\ Sets(lastUpdate, P)
  /\ ReorderLast(ValueAt(lastUpdate, P))
  /\ \A i \in DOMAIN ItemsBeforeReorder(P) : IsPlainObject(ItemsBeforeReorder(P)[i])
  /\ MergedDownTo(P)

\* the update for P is one "o" operation, stored raw, and the render applied
\* it to the items of the range index
RenderReorderAt(P) ==
  /\ PlaceholderAppliedAt(P)
  /\ ReorderLast(ValueAt(lastUpdate, P))
  /\ Len(ValueAt(lastUpdate, P).l) = 1

\* the idKey the render finds registered for P
IdKeyOfIndex(P) == IF HasEntry(before.rangeIdKeys, PathString(P)) THEN before.rangeIdKeys[PathString(P)] ELSE Undefined

\* after has at most as many items as prev and none of them twice
NoneDuplicated(prev, after) ==
  /\ Len(after) <= Len(prev)
  /\ \A i \in DOMAIN prev : Occurrences(after, prev[i]) <= 1

\* after is made of items of prev, one for a key of K at most: an item
\* occurs as often as K names its key, at most
OnePerKey(prev, after, K, idKey) ==
  /\ \A j \in DOMAIN after : \E i \in DOMAIN prev : after[j] = prev[i]
  /\ Len(after) <= Len(K)
  /\ IsString(idKey) => \A j \in DOMAIN after : Occurrences(after, after[j]) <= Occurrences(K, KeyOf(after[j], idKey))
  /\ (\A m, n \in DOMAIN K : m # n => K[m] # K[n]) => NoneDuplicated(prev, after)

(***************************************************************************)
(* C33, as stated: a reorder never duplicates or adds items: after any "o" *)
(* operation, for any ordered key list, the items list has at most as many *)
(* items as before and no item of the previous list occurs in it more than *)
(* once.                                                                   *)
(***************************************************************************)
C33_ReorderNeverDuplicates ==
  Applied =>
    /\ \A P \in PathsOf(Obj(before.treeState)) :
         MergeReorderAt(P) => NoneDuplicated(ItemsBeforeReorder(P), Get(ValueAt(Obj(treeState), P), "d").l)
    /\ \A P \in PathsOf(lastUpdate) :
         RenderReorderAt(P) => NoneDuplicated(before.rangeState[PathString(P)].items.l, rangeState[PathString(P)].items.l)

(***************************************************************************)
(* C33, amended: a reorder adds no item that was not there: after an "o"   *)
(* operation with ordered key list K every item of the list is an item of  *)
(* the previous list, the list has at most as many items as K has keys,    *)
(* and an item occurs in it at most as often as K names its key; when K    *)
(* names no key twice, the list has at most as many items as before and no *)
(* item of the previous list occurs in it more than once.                  *)
(***************************************************************************)
C33_ReorderAddsNothing ==
  Applied =>
    /\ \A P \in PathsOf(Obj(before.treeState)) :
         MergeReorderAt(P) =>
           OnePerKey(ItemsBeforeReorder(P), Get(ValueAt(Obj(treeState), P), "d").l, OrderedKeys(ValueAt(lastUpdate, P)), IdKeyAt(P))
    /\ \A P \in PathsOf(lastUpdate) :
         RenderReorderAt(P) =>
           OnePerKey(before.rangeState[PathString(P)].items.l, rangeState[PathString(P)].items.l,
                     OrderedKeys(ValueAt(lastUpdate, P)), IdKeyOfIndex(P))

\* a reorder of the merge whose list names one key three times put the item
\* of that key in the list three times, more items than there were
C33_Witness ==
  /\ Applied
  /\ \E P \in PathsOf(Obj(before.treeState)) :
       /\ MergeReorderAt(P)
       /\ Len(ItemsBeforeReorder(P)) = 2
       /\ Len(Get(ValueAt(Obj(treeState), P), "d").l) = 3
       /\ Occurrences(Get(ValueAt(Obj(treeState), P), "d").l, ItemsBeforeReorder(P)[1]) = 3

\* a reorder of the render swapped the two items of the index
C33_WitnessRender ==
  /\ Applied
  /\ \E P \in PathsOf(lastUpdate) :
       /\ RenderReorderAt(P)
       /\ Len(before.rangeState[PathString(P)].items.l) = 2
       /\ rangeState[PathString(P)].items.l = <<before.rangeState[PathString(P)].items.l[2], before.rangeState[PathString(P)].items.l[1]>>
       /\ before.rangeState[PathString(P)].items.l[1] # before.rangeState[PathString(P)].items.l[2]

\* a reorder of distinct keys dropped the item whose key it does not name
C33_WitnessDistinct ==
  /\ Applied
  /\ \E P \in PathsOf(Obj(before.treeState)) :
       /\ MergeReorderAt(P)
       /\ IsString(IdKeyAt(P))
       /\ Len(ItemsBeforeReorder(P)) = 2
       /\ Get(ValueAt(Obj(treeState), P), "d").l = <<ItemsBeforeReorder(P)[2]>>

(***************************************************************************)
(* Fragments.  What the spec expects of the rendering of a Fragment: the   *)
(* statics in order, the rendering of slot i after static i, nothing for a *)
(* slot that is not stored, nothing after the last static; the synthetic   *)
(* <root> wrapper is stripped from the output (spec 4.3).                  *)
(***************************************************************************)
RECURSIVE SlotsInterleaved(_, _, _, _, _)
\* statics[i], render(slot i), statics[i + 1], ... up to the last static;
\* the slots are rendered one after the other by an engine in state e
SlotsInterleaved(node, statics, i, statePath, e) ==
  IF i > Len(statics) THEN <<>>
  ELSE IF i = Len(statics) \/ Get(node, IntToString(i - 1)) = Undefined
       THEN Text(statics[i]) \o SlotsInterleaved(node, statics, i + 1, statePath, e)
       ELSE Text(statics[i])
            \o renderValue(Get(node, IntToString(i - 1)), IntToString(i - 1), JoinPath(statePath, IntToString(i - 1)), e).h
            \o SlotsInterleaved(node, statics, i + 1, statePath,
                           renderValue(Get(node, IntToString(i - 1)), IntToString(i - 1), JoinPath(statePath, IntToString(i - 1)), e).e)

WithoutRootTags(h) == SelectSeq(h, LAMBDA a : a \notin {"<root>", "</root>"})

\* the html the spec expects of the Fragment node
FragmentHtml(node, statePath, e) == WithoutRootTags(SlotsInterleaved(node, Get(node, "s").l, 1, statePath, e))

\* the stored slots of a Fragment that its statics leave no place for
SlotsAfterLast(node) == {k \in DOMAIN node.f : IsNumericKey(k) /\ ParseInt(k) >= Len(Get(node, "s").l) - 1}

\* the slots between its statics that a Fragment has no value for
SlotsNotStored(node) == {i \in 0..(Len(Get(node, "s").l) - 2) : Get(node, IntToString(i)) = Undefined}

(***************************************************************************)
(* C34: for a Fragment with statics s[0..n-1], the rendered string is      *)
(* s[0], render(slot 0), s[1], render(slot 1), ..., s[n-1] in that order;  *)
(* a slot with no stored value contributes the empty string, and a stored  *)
(* slot whose index is n-1 or greater is not rendered.  This holds of the  *)
(* html that applyUpdate returns for the tree, and of the rendering of     *)
(* every Fragment in the tree.                                             *)
(***************************************************************************)
C34_FragmentInterleaved ==
  Applied =>
    /\ IsArray(Get(Obj(MergedTree), "s")) => result.html = FragmentHtml(Obj(MergedTree), "", MergedEngine)
    /\ \A P \in PathsOf(Obj(treeState)) :
         (IsFragment(ValueAt(Obj(treeState), P)) /\ reconstructFromTree(ValueAt(Obj(treeState), P), PathString(P), Engine).ok) =>
           reconstructFromTree(ValueAt(Obj(treeState), P), PathString(P), Engine).h = FragmentHtml(ValueAt(Obj(treeState), P), PathString(P), Engine)

\* a tree in the <root> wrapper whose Fragment has three statics, a Range
\* in its first slot and nothing stored for its second slot: the html is the
\* first static, the items, the other two statics, without the wrapper
C34_Witness ==
  /\ Applied
  /\ Get(Obj(treeState), "s") = SA(<<"<root>", "</root>">>)
  /\ IsFragment(Get(Obj(treeState), "0"))
  /\ Len(Get(Get(Obj(treeState), "0"), "s").l) = 3
  /\ SlotsNotStored(Get(Obj(treeState), "0")) = {1}
  /\ isRangeNode(Get(Get(Obj(treeState), "0"), "0"))
  /\ Len(result.html) > 3
  /\ result.html[1] = Get(Get(Obj(treeState), "0"), "s").l[1].v
  /\ SubSeq(result.html, Len(result.html) - 1, Len(result.html))
       = <<Get(Get(Obj(treeState), "0"), "s").l[2].v, Get(Get(Obj(treeState), "0"), "s").l[3].v>>

\* a Fragment in the tree holds a slot that its statics leave no place for,
\* and the html shows its static and not the slot
C34_WitnessAfterLast ==
  /\ Applied
  /\ \E P \in PathsOf(Obj(treeState)) :
       /\ Len(P) >= 1
       /\ IsFragment(ValueAt(Obj(treeState), P))
       /\ Visible(Obj(treeState), P)
       /\ \E k \in SlotsAfterLast(ValueAt(Obj(treeState), P)) :
            /\ IsString(Get(ValueAt(Obj(treeState), P), k))
            /\ Get(ValueAt(Obj(treeState), P), k).v \notin Atoms(result.html)
       /\ StringsOf(Get(ValueAt(Obj(treeState), P), "s")) # {}
       /\ StringsOf(Get(ValueAt(Obj(treeState), P), "s")) \subseteq Atoms(result.html)

(***************************************************************************)
(* Nodes that are nearly Ranges.                                           *)
(***************************************************************************)
\* a node with a d field that is no Range: its d or its s is missing or is
\* not an array
NearlyRange(node) ==
  /\ IsPlainObject(node)
  /\ "d" \in DOMAIN node.f
  /\ ~(IsArray(Get(node, "d")) /\ IsArray(Get(node, "s")))

(***************************************************************************)
(* C35: a node shaped like a Range but lacking a valid d array or a valid  *)
(* s array (d or s missing, or not an array) is rendered as the empty      *)
(* string, while its sibling subtrees are rendered normally: the html is   *)
(* that of the same tree with nothing at the node's place.                 *)
(***************************************************************************)
C35_NearlyRangeRendersEmpty ==
  Applied => \A P \in PathsOf(Obj(treeState)) :
               (Len(P) >= 1 /\ NearlyRange(ValueAt(Obj(treeState), P)) /\ Visible(Obj(treeState), P)) =>
                 result.html = HtmlWithout(P)

\* the part of C35 that the code keeps: the node's s is not an array
C35_WithoutStaticsRendersEmpty ==
  Applied => \A P \in PathsOf(Obj(treeState)) :
               (/\ Len(P) >= 1
                /\ NearlyRange(ValueAt(Obj(treeState), P))
                /\ ~IsArray(Get(ValueAt(Obj(treeState), P), "s"))
                /\ Visible(Obj(treeState), P)) =>
                 result.html = HtmlWithout(P)

(***************************************************************************)
(* Unknown opcodes.  What the spec expects of an operation tuple whose     *)
(* opcode is none of a, p, i, r, u, o.                                     *)
(***************************************************************************)
Opcodes == {"a", "p", "i", "r", "u", "o"}

UnknownOpcode(operation) ==
  /\ IsArray(operation)
  /\ Len(operation.l) >= 1
  /\ \A code \in Opcodes : operation.l[1] # Str(code)

KnownOpcode(operation) == ~UnknownOpcode(operation)

\* the operations of the batch without those of unknown opcode, in their order
OthersOf(ops) == Arr(SelectSeq(ops.l, KnownOpcode))

\* the stored value at P is a Range of well-formed items and the update gives
\* for P a batch of operations of which at least one has an unknown opcode
UnknownOpAt(P) ==
  /\ lastUpdate # NoUpdate
  /\ isRangeNode(ValueAt(Obj(before.treeState), P))
  /\ \A i \in DOMAIN Get(ValueAt(Obj(before.treeState), P), "d").l :
       IsPlainObject(Get(ValueAt(Obj(before.treeState), P), "d").l[i])
  /\ Sets(lastUpdate, P)
  /\ isDifferentialOps(ValueAt(lastUpdate, P))
  /\ \E i \in DOMAIN ValueAt(lastUpdate, P).l : UnknownOpcode(ValueAt(lastUpdate, P).l[i])
  /\ MergedDownTo(P)

\* the stored Range at P with the other operations of the batch applied
WithOthersApplied(P) ==
  applyDifferentialOpsToRange([val |-> ValueAt(Obj(before.treeState), P), shared |-> FALSE],
                              OthersOf(ValueAt(lastUpdate, P)), PathString(P), EngineBefore)

(***************************************************************************)
(* C36: an operation tuple whose opcode is not one of a, p, i, r, u, o is  *)
(* skipped: it changes neither the items nor the statics of the Range,     *)
(* raises no error, and the other operations of the same batch are still   *)
(* applied in their order.  The Range ends as the other operations alone   *)
(* leave it, and as it was when the batch has no other operation.          *)
(***************************************************************************)
C36_UnknownOpcodeSkipped ==
  \A P \in PathsOf(Obj(before.treeState)) :
    (UnknownOpAt(P) /\ WithOthersApplied(P).ok) =>
      /\ ~result.threw
      /\ Get(ValueAt(Obj(MergedTree), P), "d") = Get(WithOthersApplied(P).v, "d")
      /\ Get(ValueAt(Obj(MergedTree), P), "s") = Get(WithOthersApplied(P).v, "s")
      /\ OthersOf(ValueAt(lastUpdate, P)).l = <<>> =>
           /\ Get(ValueAt(Obj(MergedTree), P), "d") = Get(ValueAt(Obj(before.treeState), P), "d")
           /\ Get(ValueAt(Obj(MergedTree), P), "s") = Get(ValueAt(Obj(before.treeState), P), "s")

\* a batch of an append, an operation of unknown opcode and a removal was
\* applied: the item was appended and the first item removed
C36_Witness ==
  /\ Applied
  /\ \E P \in PathsOf(Obj(before.treeState)) :
       /\ UnknownOpAt(P)
       /\ Len(ValueAt(lastUpdate, P).l) = 3
       /\ UnknownOpcode(ValueAt(lastUpdate, P).l[2])
       /\ Len(Get(ValueAt(Obj(before.treeState), P), "d").l) = 2
       /\ Get(ValueAt(Obj(MergedTree), P), "d").l =
            <<Get(ValueAt(Obj(before.treeState), P), "d").l[2], ValueAt(lastUpdate, P).l[1].l[2]>>

\* a batch of one operation of unknown opcode left a Range of two items as
\* it was
C36_WitnessAlone ==
  /\ Applied
  /\ \E P \in PathsOf(Obj(before.treeState)) :
       /\ UnknownOpAt(P)
       /\ Len(ValueAt(lastUpdate, P).l) = 1
       /\ Len(Get(ValueAt(Obj(before.treeState), P), "d").l) = 2
       /\ ValueAt(Obj(MergedTree), P) = ValueAt(Obj(before.treeState), P)

(***************************************************************************)
(* The two implementations of the operations side by side.                 *)
(***************************************************************************)
\* the update brings operations for the stored Range at P, and the range
\* index holds for P the items and statics of that Range and the registry
\* its idKey: both implementations start from the same items, statics and
\* idKey
SameStartAt(P) ==
  /\ lastUpdate # NoUpdate
  /\ isRangeNode(ValueAt(Obj(before.treeState), P))
  /\ Sets(lastUpdate, P)
  /\ isDifferentialOps(ValueAt(lastUpdate, P))
  /\ MergedDownTo(P)
  /\ HasEntry(before.rangeState, PathString(P))
  /\ before.rangeState[PathString(P)].items = Get(ValueAt(Obj(before.treeState), P), "d")
  /\ before.rangeState[PathString(P)].statics = Get(ValueAt(Obj(before.treeState), P), "s")
  /\ IsString(Get(Get(ValueAt(Obj(before.treeState), P), "m"), "idKey")) =>
       /\ HasEntry(before.rangeIdKeys, PathString(P))
       /\ before.rangeIdKeys[PathString(P)] = Get(Get(ValueAt(Obj(before.treeState), P), "m"), "idKey")

\* the operations applied to the Range node in the tree
ThroughTree(P) ==
  applyDifferentialOpsToRange([val |-> ValueAt(Obj(before.treeState), P), shared |-> FALSE],
                              ValueAt(lastUpdate, P), PathString(P), EngineBefore)

\* the index entry that the render path leaves when the same operations are
\* found as a raw placeholder at P
ThroughRender(P) ==
  applyDifferentialOperations(ValueAt(lastUpdate, P), PathString(P), EngineBefore).e.rangeState[PathString(P)]

Agree(P) ==
  /\ Get(ThroughTree(P).v, "d") = ThroughRender(P).items
  /\ Get(ThroughTree(P).v, "s") = ThroughRender(P).statics

\* an "a" or "p" operation that gives null, "", 0 or false as its items
AddsNothing(operation) ==
  /\ IsArray(operation)
  /\ Len(operation.l) >= 2
  /\ operation.l[1] \in {Str("a"), Str("p")}
  /\ ~Truthy(operation.l[2])

(***************************************************************************)
(* C37: the two implementations of differential operations agree: for the  *)
(* same starting items, statics, registered idKey and operation list,      *)
(* applying the operations through the render path (raw placeholder plus   *)
(* range index) yields the same resulting items list and statics as        *)
(* applying them to a Range node in the tree.                              *)
(***************************************************************************)
C37_ImplementationsAgree ==
  \A P \in PathsOf(Obj(before.treeState)) :
    (SameStartAt(P) /\ ThroughTree(P).ok) =>
      /\ Get(ValueAt(Obj(MergedTree), P), "d") = Get(ThroughTree(P).v, "d")
      /\ Get(ValueAt(Obj(MergedTree), P), "s") = Get(ThroughTree(P).v, "s")
      /\ Agree(P)

\* the part of C37 that the code keeps: the implementations agree on every
\* operation list whose "a" and "p" operations give items
C37_AgreeWhenItemsGiven ==
  \A P \in PathsOf(Obj(before.treeState)) :
    (/\ SameStartAt(P)
     /\ ThroughTree(P).ok
     /\ \A i \in DOMAIN ValueAt(lastUpdate, P).l : ~AddsNothing(ValueAt(lastUpdate, P).l[i])) =>
      /\ Get(ValueAt(Obj(MergedTree), P), "d") = Get(ThroughTree(P).v, "d")
      /\ Get(ValueAt(Obj(MergedTree), P), "s") = Get(ThroughTree(P).v, "s")
      /\ Agree(P)

\* the implementations were compared on a list of two operations that
\* changed the items
C37_WitnessAgree ==
  \E P \in PathsOf(Obj(before.treeState)) :
    /\ SameStartAt(P)
    /\ ThroughTree(P).ok
    /\ Len(ValueAt(lastUpdate, P).l) >= 2
    /\ Get(ThroughTree(P).v, "d") # Get(ValueAt(Obj(before.treeState), P), "d")
    /\ Agree(P)

(***************************************************************************)
(* Close events of sockets the transport has discarded.                    *)
(***************************************************************************)
\* the step delivers the close event of a socket the transport refers to no
\* longer: one that disconnect() closed, or one that a later connect()
\* replaced
DiscardedSocketCloses ==
  \/ Pending(discarded') < Pending(discarded)
  \/ ~transport.ref /\ transport.socket = "closing" /\ transport'.socket = "closed"

\* the step ends with a new reconnect timer: lines 286 and 299
SchedulesReconnect == transport'.reconnectAttempts = transport.reconnectAttempts + 1 /\ transport'.reconnectTimer.set

(***************************************************************************)
(* C38: under any interleaving of connect(), disconnect(), reconnect-timer *)
(* firings and socket events, a close event delivered by a socket the      *)
(* transport has already discarded (closed by disconnect(), or superseded  *)
(* by a later connect()) never schedules a reconnect.                      *)
(***************************************************************************)
C38_DiscardedCloseNeverReconnects == [][DiscardedSocketCloses => ~SchedulesReconnect]_vars

\* the part of C38 that the code keeps: after disconnect() and until the
\* next connect(), no close event of a discarded socket schedules a reconnect
C38_NoReconnectWhileDisconnected == [][(DiscardedSocketCloses /\ transport.manuallyClosed) => ~SchedulesReconnect]_vars

\* the close event of a socket closed by disconnect() came while the
\* transport was disconnected
C38_WitnessDisconnected ==
  /\ transport.manuallyClosed
  /\ ~transport.ref
  /\ transport.socket = "closed"
  /\ wsLog.created > 0
  /\ ~transport.reconnectTimer.set

(***************************************************************************)
(* Messages of an entry after its cancellation.                            *)
(***************************************************************************)
\* cancelUpload(id) has sent cancel_upload for the chunked entry id as the
\* i-th message
CancelSentAt(i, id) ==
  /\ outbox[i].action = "cancel_upload"
  /\ outbox[i].entry_id = id
  /\ ChunkedUploadStarted(id)

\* the j-th message is an upload_chunk or an upload_complete for id
UploadMessageAt(j, id) ==
  \/ outbox[j].action = "upload_chunk" /\ outbox[j].entry_id = id
  \/ outbox[j].action = "upload_complete" /\ outbox[j].entry_ids = <<id>>

\* the messages for id sent after the i-th
SentAfterFor(i, id) == {j \in DOMAIN outbox : j > i /\ UploadMessageAt(j, id)}

(***************************************************************************)
(* C39: once cancelUpload(id) has sent cancel_upload for an entry, no      *)
(* upload_chunk and no upload_complete message for that entry is sent      *)
(* afterwards, under any interleaving of cancelUpload with the             *)
(* asynchronous file reads of the chunk loop.                              *)
(***************************************************************************)
C39_NothingSentAfterCancel ==
  \A i \in DOMAIN outbox : \A id \in DOMAIN tasks : CancelSentAt(i, id) => SentAfterFor(i, id) = {}

\* the part of C39 that the code keeps: after the cancellation the loop
\* sends the chunk whose read was under way and, if that was the last one,
\* the upload_complete, and nothing more
C39_OnlyTheChunkUnderWayAfterCancel ==
  \A i \in DOMAIN outbox : \A id \in DOMAIN tasks :
    CancelSentAt(i, id) =>
      /\ Cardinality({j \in SentAfterFor(i, id) : outbox[j].action = "upload_chunk"}) <= 1
      /\ \A j \in SentAfterFor(i, id) :
           outbox[j].action = "upload_complete" =>
             \E k \in SentAfterFor(i, id) : k < j /\ outbox[k].action = "upload_chunk" /\ outbox[k].offset + chunkSize >= outbox[k].total

\* an entry was cancelled between two reads and its loop ended with the
\* error
C39_WitnessStopped ==
  \E i \in DOMAIN outbox : \E id \in DOMAIN tasks :
    /\ CancelSentAt(i, id)
    /\ tasks[id].at = "ended"
    /\ objects[id].error = "Upload cancelled"
    /\ ~objects[id].done

(***************************************************************************)
(* The chunk loop from its first chunk to its end.                         *)
(***************************************************************************)
\* the entry ids of a behaviour
EntryIds == 1..(2 * MaxUploadStarts)

\* the FileReader of a chunk ends its read, with the chunk or with an error
SpecUploadsFair == SpecUploads /\ \A id \in EntryIds : WF_vars(ChunkRead(id) \/ ChunkReadFails(id))

\* the offsets of the upload_chunk messages for id, in the order sent
OffsetsSentFor(id) ==
  LET chunks == SelectSeq(outbox, LAMBDA m : m.action = "upload_chunk" /\ m.entry_id = id)
  IN [k \in DOMAIN chunks |-> chunks[k].offset]

\* the positions in the outbox of the upload_complete messages for id
CompletesFor(id) == {i \in DOMAIN outbox : outbox[i].action = "upload_complete" /\ outbox[i].entry_ids = <<id>>}

\* the number of chunks of a file of the size: the offsets 0, C, 2C, ...
\* below it
ChunksOf(size) == (size + chunkSize - 1) \div chunkSize

\* no cancellation of the entry and no read error in its loop
Undisturbed(id) ==
  /\ \A i \in DOMAIN outbox : ~(outbox[i].action = "cancel_upload" /\ outbox[i].entry_id = id)
  /\ objects[id].error # "read error"

\* the chunks sent so far are those of the offsets 0, C, 2C, ... in that
\* order, each once, and an upload_complete comes once and after them all
InOrder(id) ==
  /\ Len(OffsetsSentFor(id)) <= ChunksOf(objects[id].file.size)
  /\ \A k \in DOMAIN OffsetsSentFor(id) : OffsetsSentFor(id)[k] = (k - 1) * chunkSize
  /\ Cardinality(CompletesFor(id)) <= 1
  /\ \A i \in CompletesFor(id) :
       /\ Len(OffsetsSentFor(id)) = ChunksOf(objects[id].file.size)
       /\ \A j \in ChunksSentFor(id) : j < i

\* the loop has ended: every chunk was sent, the upload_complete followed and
\* the entry is done
EndedComplete(id) ==
  tasks[id].at = "ended" =>
    /\ Len(OffsetsSentFor(id)) = ChunksOf(objects[id].file.size)
    /\ Cardinality(CompletesFor(id)) = 1
    /\ objects[id].done

ChunkLoopInOrder ==
  \A id \in DOMAIN tasks : (ChunkedUploadStarted(id) /\ Undisturbed(id)) => (InOrder(id) /\ EndedComplete(id))

\* bytesUploaded is S whenever the loop has ended
ChunkLoopEndsAtSize ==
  \A id \in DOMAIN tasks :
    (ChunkedUploadStarted(id) /\ Undisturbed(id) /\ tasks[id].at = "ended") => objects[id].bytesUploaded = objects[id].file.size

\* the step leaves bytesUploaded of no entry lower than it was
NeverDecreases == \A id \in DOMAIN objects : objects'[id].bytesUploaded >= objects[id].bytesUploaded

\* the step is one of the loop: it sends a message of the upload of id
LoopStepOf(id) ==
  /\ ChunkedUploadStarted(id)
  /\ Len(outbox') = Len(outbox) + 1 \/ Len(outbox') = Len(outbox) + 2
  /\ \E i \in DOMAIN outbox' : i > Len(outbox) /\ outbox'[i].action = "upload_chunk" /\ outbox'[i].entry_id = id

\* a step of the loop does not lower bytesUploaded, and the step that sends
\* the upload_complete leaves it at S
LoopWritesBytes ==
  \A id \in DOMAIN tasks :
    LoopStepOf(id) =>
      /\ objects'[id].bytesUploaded >= objects[id].bytesUploaded
      /\ outbox'[Len(outbox')].action = "upload_complete" => objects'[id].bytesUploaded = objects[id].file.size

\* a chunk loop that has started comes to its end
ChunkLoopTerminates == \A id \in EntryIds : ChunkedUploadStarted(id) ~> (ChunkedUploadStarted(id) /\ tasks[id].at = "ended")

====
